---- MODULE Spec2Model ----
(***************************************************************************)
(* Architecture-as-Code Visualizer: the text -> tree -> format label ->     *)
(* (validation issues, Mermaid markup) pipeline of src/utils/yamlParser.ts  *)
(* and src/utils/mermaidGenerator.ts.                                       *)
(*                                                                          *)
(* A JavaScript value is a tagged record; a text is described by what the   *)
(* library parsers (JSON.parse, js-yaml load / loadAll) and the substring   *)
(* tests of the code make of it.                                            *)
(***************************************************************************)
EXTENDS Integers, Sequences, FiniteSets, TLC

VARIABLES content, call, pc, detected, parseResult, diagram, rawId, safeId,
          prototype, runs,
          zoom, pan, panMode, isMouseDown, attached, clicks,
          yamlContent, timers, app

\* the state of DiagramViewer, and of App around processContent
viewerVars == <<zoom, pan, panMode, isMouseDown, attached, clicks>>

appVars == <<yamlContent, timers, app>>

vars == <<content, call, pc, detected, parseResult, diagram, rawId, safeId,
          prototype, runs, viewerVars, appVars>>

(***************************************************************************)
(* Bounds of the model.                                                     *)
(***************************************************************************)
\* number of top-level fields set or removed on top of a base document
MaxEdits == 1
\* number of documents between separators of a multi-document text
MaxDocs == 3
\* number of characters of the string given to sanitizeNodeId
MaxIdLen == 3
\* number of runs of the pipeline in one session
MaxRuns == 3
\* number of ports a Compose service publishes
MaxPorts == 7

\* the pan offsets run from -MaxPan to MaxPan
MaxPan == 1

\* the timers of handleContentChange that may be pending at a time
MaxTimers == 2

(***************************************************************************)
(* JavaScript values.                                                       *)
(***************************************************************************)
Undef == [t |-> "undef"]
Null == [t |-> "null"]
S(s) == [t |-> "str", s |-> s]
N(n) == [t |-> "num", n |-> n]
A(seq) == [t |-> "arr", a |-> seq]
O(f) == [t |-> "obj", o |-> f]
EmptyObj == O(<<>>)
\* an object that holds itself (a YAML anchor aliased inside its own node)
Cyclic == [t |-> "cyc"]

\* JS truthiness: what `if (x)`, `!x` and `x || y` test
Truthy(v) ==
  CASE v.t = "undef" -> FALSE
    [] v.t = "null" -> FALSE
    [] v.t = "str" -> v.s # ""
    [] v.t = "num" -> v.n # 0
    [] OTHER -> TRUE

\* typeof v === 'object' (true of null and of arrays)
TypeofObject(v) == v.t \in {"null", "arr", "obj", "cyc"}

\* typeof v === 'string'
TypeofString(v) == v.t = "str"

\* v === null || v === undefined: a property access on v raises a TypeError
Nullish(v) == v.t \in {"null", "undef"}

\* v.k for a non-nullish v (own keys of an object; undefined otherwise)
\* v[k] and v.k: an own property, or one inherited from Object.prototype;
\* prototype holds the properties the program has set on Object.prototype
Get(v, k) ==
  IF v.t = "obj" /\ k \in DOMAIN v.o THEN v.o[k]
  ELSE IF v.t \in {"obj", "arr", "cyc"} /\ k \in DOMAIN prototype THEN prototype[k]
  ELSE Undef

\* k in v, for an object v
In(v, k) == (v.t = "obj" /\ k \in DOMAIN v.o) \/ k \in DOMAIN prototype

\* k in v, for an object v
HasKey(v, k) == v.t = "obj" /\ k \in DOMAIN v.o

\* a || b
OrElse(a, b) == IF Truthy(a) THEN a ELSE b

\* Object.keys(v) of an object, as a set
Keys(v) ==
  CASE v.t = "obj" -> DOMAIN v.o
    [] OTHER -> {}

\* the object f with key k set to v, or removed when v is undefined
SetField(obj, k, v) ==
  IF v = Undef
  THEN O([x \in (DOMAIN obj.o) \ {k} |-> obj.o[x]])
  ELSE O([x \in (DOMAIN obj.o) \cup {k} |-> IF x = k THEN v ELSE obj.o[x]])

(***************************************************************************)
(* Strings.  TLC strings are atoms, so each substring test of the code is   *)
(* the set of the model's strings that contain the substring.               *)
(***************************************************************************)
ArmSchema == "https://schema.management.azure.com/schemas/2019-04-01/deploymentTemplate.json#"
OtherSchema == "http://json-schema.org/draft-07/schema#"

\* s.includes('deploymentTemplate.json')
IncludesDeploymentTemplate(s) == s \in {ArmSchema}

\* s.toLowerCase() includes 'ibm_' or 'ibmcloud_'
IncludesIbm(s) == s \in {"ibm_is_vpc", "IBM_IS_SUBNET", "ibmcloud_api_key"}

(***************************************************************************)
(* Documents: the trees the parsers return.  The base documents are the     *)
(* canonical documents of the test suites; the others are a base document   *)
(* with at most MaxEdits top-level fields set or removed.                   *)
(***************************************************************************)
ComposeDoc ==
  O([version |-> S("3.8"),
     services |-> O([web |-> O([image |-> S("nginx")])])])

K8sDoc ==
  O([apiVersion |-> S("apps/v1"), kind |-> S("Deployment"),
     metadata |-> O([name |-> S("test")])])

CfnDoc ==
  O([AWSTemplateFormatVersion |-> S("2010-09-09"),
     Resources |-> O([MyInstance |-> O([Type |-> S("AWS::EC2::Instance")])])])

ArmDoc ==
  O(("$schema" :> S(ArmSchema)) @@
    [contentVersion |-> S("1.0.0.0"),
     resources |-> A(<<O([type |-> S("Microsoft.Compute/virtualMachines"),
                          apiVersion |-> S("2019-07-01"),
                          name |-> S("myVM")])>>)])

IbmDoc ==
  O([terraform_version |-> S("1.0"), platform |-> S("ibm"),
     resources |-> A(<<O([name |-> S("vpc"), type |-> S("ibm_is_vpc")])>>)])

TfJsonDoc ==
  O([resource |-> O([aws_instance |-> O([web |-> O([ami |-> S("ami-123456")])])])])

NullCfgDoc ==
  O([networks |-> O([frontend |-> Null]), volumes |-> O([data |-> Null])])

BaseDocs == {EmptyObj, ComposeDoc, K8sDoc, CfnDoc, ArmDoc, IbmDoc, TfJsonDoc, NullCfgDoc}

\* the fields an edit sets, each with the values it may take (Undef removes it)
FieldValues ==
  [ schema |-> {S(ArmSchema), S(OtherSchema), N(1)},
    AWSTemplateFormatVersion |-> {S("2010-09-09")},
    Resources |-> {O([MyInstance |-> O([Type |-> S("AWS::EC2::Instance")])]),
                   O([MyInstance |-> EmptyObj]),
                   O([MyInstance |-> Null]),
                   Null, Undef},
    apiVersion |-> {S("apps/v1"), N(1), Undef},
    kind |-> {S("Deployment"), S("Service"), Undef},
    metadata |-> {EmptyObj, O([name |-> S("test"), namespace |-> S("prod")]),
                  O([name |-> S("test"), namespace |-> S("constructor")]),
                  O([name |-> S("a\"b"), namespace |-> S("a\"b")]), Undef},
    version |-> {S("3.8"), N(3), Undef},
    services |-> {O([web |-> O([image |-> S("nginx")])]),
                  O([web |-> O([build |-> S(".")])]),
                  O([web |-> EmptyObj]),
                  O([web |-> Null]),
                  O([web |-> O([image |-> N(123)])]),
                  Undef},
    terraform |-> {O([required_version |-> S(">= 1.0")])},
    provider |-> {O([aws |-> O([region |-> S("us-east-1")])])},
    resource |-> {O([aws_instance |-> O([web |-> O([ami |-> S("ami-123456")])])]),
                  O([ibm_is_vpc |-> O([vpc |-> EmptyObj])])},
    data |-> {O([aws_ami |-> O([ubuntu |-> EmptyObj])])},
    resources |-> {A(<<O([name |-> S("vpc"), type |-> S("ibm_is_vpc")])>>),
                   A(<<Null>>),
                   A(<<O([name |-> S("vpc"), type |-> N(7)])>>),
                   EmptyObj, Undef},
    contentVersion |-> {Undef},
    networks |-> {O([frontend |-> Null]), O([frontend |-> O([driver |-> S("overlay")])])},
    volumes |-> {O([data |-> Null])},
    name |-> {S("IBM_IS_SUBNET")} ]

FieldKey(f) == IF f = "schema" THEN "$schema" ELSE f

Edits == UNION {{<<FieldKey(f), v>> : v \in FieldValues[f]} : f \in DOMAIN FieldValues}

RECURSIVE DocsWithin(_)
DocsWithin(n) ==
  IF n = 0 THEN BaseDocs
  ELSE LET prev == DocsWithin(n - 1)
       IN  prev \cup {SetField(d, e[1], e[2]) : d \in prev, e \in Edits}

Docs == DocsWithin(MaxEdits)


(***************************************************************************)
(* HCL text: the blocks the regular expressions of parseHCLToJSON match,    *)
(* in text order.  A resource body is its attribute lines: key = "value"    *)
(* (quoted) or key = bare.value, followed by the entries of its             *)
(* tags = { } block, each on a line of its own or not.                      *)
(***************************************************************************)
NoBlocks == [provider |-> <<>>, resource |-> <<>>, data |-> <<>>, variable |-> <<>>]

WebInstance ==
  [type |-> "aws_instance", name |-> "web",
   attrs |-> <<[key |-> "ami", quoted |-> TRUE, value |-> "ami-123456"]>>,
   tags |-> <<>>]

SubnetRes ==
  [type |-> "aws_subnet", name |-> "sub1",
   attrs |-> <<[key |-> "vpc_id", quoted |-> FALSE, value |-> "aws_vpc.main.id"],
              [key |-> "count", quoted |-> FALSE, value |-> "2"]>>,
   tags |-> <<[key |-> "Name", value |-> "sub", ownLine |-> TRUE]>>]

VpcRes ==
  [type |-> "aws_vpc", name |-> "main",
   attrs |-> <<[key |-> "cidr_block", quoted |-> TRUE, value |-> "10.0.0.0/16"]>>,
   tags |-> <<>>]

\* a block whose type and name are both "__proto__"
ProtoRes == [type |-> "__proto__", name |-> "__proto__", attrs |-> <<>>, tags |-> <<>>]

HclBlockSets ==
  { NoBlocks,
    [NoBlocks EXCEPT !.resource = <<WebInstance, ProtoRes>>],
    [NoBlocks EXCEPT !.resource = <<VpcRes, SubnetRes>>],
    [NoBlocks EXCEPT !.resource = <<WebInstance>>],
    [NoBlocks EXCEPT !.variable = <<"region">>],
    [provider |-> <<"aws">>, resource |-> <<WebInstance, SubnetRes>>,
     data |-> <<[type |-> "aws_ami", name |-> "ubuntu"]>>, variable |-> <<"region">>] }

\* value.includes('.')
IncludesDot(s) == s \in {"aws_vpc.main.id", "var.region", "local.tags"}

(***************************************************************************)
(* Texts.  A text is what the code can observe of it:                       *)
(*   syntax  "json": JSON.parse returns docs[1]; "yaml": JSON.parse throws  *)
(*           and js-yaml reads the documents docs; "broken": both throw     *)
(*   yamlOk  whether js-yaml accepts the text (it rejects some valid JSON,  *)
(*           e.g. an object with a duplicated key)                          *)
(*   sep     content.includes('---')                                        *)
(*   hcl     the text matches the HCL heuristic of detectFormat             *)
(*   lead    what content.trim() starts with: '{', 'terraform:' or other    *)
(*   blocks  the HCL blocks the text holds                                  *)
(***************************************************************************)
Text(syntax, yamlOk, docs, sep, hcl, lead, blocks) ==
  [syntax |-> syntax, yamlOk |-> yamlOk, docs |-> docs, sep |-> sep,
   hcl |-> hcl, lead |-> lead, blocks |-> blocks]

JsonScalars == {Null, N(42), S("hello")}

\* a JSON text of one value; an object's text starts with '{'.  js-yaml is
\* applied to it only if it holds '---' (in a string), so yamlOk is free there
JsonTexts ==
  {t \in {Text("json", y, <<d>>, s, h, IF d.t = "obj" THEN "brace" ELSE "other", NoBlocks) :
            d \in Docs \cup JsonScalars, y \in BOOLEAN, s \in BOOLEAN, h \in BOOLEAN} :
     t.sep \/ t.yamlOk}

\* a YAML text of one document that is not JSON; it starts with 'terraform:'
\* only if that is a key of the document, and with '{' only if the document
\* is a mapping (in flow style)
YamlTexts ==
  UNION {{Text("yaml", TRUE, <<d>>, s, FALSE, l, NoBlocks) :
            s \in BOOLEAN,
            l \in {"other"} \cup (IF HasKey(d, "terraform") THEN {"tfcolon"} ELSE {})
                              \cup (IF d.t = "obj" THEN {"brace"} ELSE {})} :
         d \in Docs \cup {S("just some prose"), Cyclic}}

\* a YAML text of one document that matches the HCL heuristic on account of a
\* string in it (a ConfigMap holding a .tf file, say)
YamlHclTexts ==
  UNION {{Text("yaml", TRUE, <<d>>, s, TRUE, l, b) :
            s \in BOOLEAN, b \in HclBlockSets,
            l \in {"other"} \cup (IF HasKey(d, "terraform") THEN {"tfcolon"} ELSE {})} :
         d \in BaseDocs \cup {O([terraform |-> EmptyObj])}}

\* native HCL: neither JSON nor YAML
HclTexts ==
  {Text("broken", FALSE, <<>>, s, TRUE, "other", b) : s \in BOOLEAN, b \in HclBlockSets}

\* neither JSON nor YAML, e.g. JSON with a missing comma
BrokenTexts ==
  {Text("broken", FALSE, <<>>, s, h, l, NoBlocks) :
     s \in BOOLEAN, h \in BOOLEAN, l \in {"brace", "tfcolon", "other"}}

\* the empty text and whitespace: no document at all
BlankTexts == {Text("yaml", TRUE, <<>>, FALSE, FALSE, "other", NoBlocks)}

K8sResource(kind, name) ==
  O([apiVersion |-> S("v1"), kind |-> S(kind), metadata |-> O([name |-> S(name)])])

\* a Service with a selector and no metadata
SelectingService ==
  O([apiVersion |-> S("v1"), kind |-> S("Service"),
     spec |-> O([selector |-> O([app |-> S("nginx")])])])

\* the documents of a multi-document text; Null is an empty document, and a
\* document may be a scalar
StreamDocs ==
  { Null,
    K8sResource("Deployment", "nginx-deployment"),
    K8sResource("Service", "nginx-service"),
    K8sResource("Ingress", "nginx-ingress"),
    SelectingService,
    S("just some prose"),
    ComposeDoc }

RECURSIVE SeqsUpTo(_, _)
SeqsUpTo(set, n) ==
  IF n = 0 THEN {<<>>}
  ELSE LET prev == SeqsUpTo(set, n - 1)
       IN  prev \cup {Append(q, x) : q \in prev, x \in set}

\* a YAML text with separators: one to MaxDocs documents, some of them empty;
\* a string of it may match the HCL heuristic
StreamTexts ==
  {Text("yaml", TRUE, q, TRUE, h, "other", NoBlocks) :
     q \in SeqsUpTo(StreamDocs, MaxDocs) \ {<<>>}, h \in BOOLEAN}

Texts ==
  JsonTexts \cup YamlTexts \cup YamlHclTexts \cup HclTexts \cup BrokenTexts
    \cup BlankTexts \cup StreamTexts


(***************************************************************************)
(* The library parsers.  A call returns its value or raises: Raise(m) is    *)
(* the exception with message m.                                            *)
(***************************************************************************)
Raise(m) == [exception |-> m]
Raised(r) == "exception" \in DOMAIN r
Return(v) == [value |-> v]

JsonSyntaxError == "Unexpected token in JSON"
YamlSyntaxError == "bad indentation of a mapping entry"
YamlStreamError == "expected a single document in the stream, but found more"

\* JSON.parse(content)
JSONParse(text) ==
  IF text.syntax = "json" THEN Return(text.docs[1]) ELSE Raise(JsonSyntaxError)

\* yaml.loadAll(content): every document, an empty one as null
YamlLoadAll(text) ==
  IF text.yamlOk THEN Return(text.docs) ELSE Raise(YamlSyntaxError)

\* yaml.load(content): the one document, undefined for none
YamlLoad(text) ==
  IF ~text.yamlOk THEN Raise(YamlSyntaxError)
  ELSE IF Len(text.docs) = 0 THEN Return(Undef)
  ELSE IF Len(text.docs) = 1 THEN Return(text.docs[1])
  ELSE Raise(YamlStreamError)

\* the documents without the filter
ValidDocsUnfiltered(docs) == docs

\* docs.filter(doc => doc !== null && doc !== undefined)
ValidDocs(docs) == SelectSeq(docs, LAMBDA d : ~Nullish(d))

\* whether JSON.stringify(v).toLowerCase() includes 'ibm_' or 'ibmcloud_'
RECURSIVE StringifyIncludesIbm(_)
StringifyIncludesIbm(v) ==
  CASE v.t = "str" -> IncludesIbm(v.s)
    [] v.t = "arr" -> \E i \in 1..Len(v.a) : StringifyIncludesIbm(v.a[i])
    [] v.t = "obj" -> \E k \in DOMAIN v.o : IncludesIbm(k) \/ StringifyIncludesIbm(v.o[k])
    [] OTHER -> FALSE

\* JSON.stringify raises a TypeError on a cyclic structure
RECURSIVE HasCycle(_)
HasCycle(v) ==
  CASE v.t = "cyc" -> TRUE
    [] v.t = "arr" -> \E i \in 1..Len(v.a) : HasCycle(v.a[i])
    [] v.t = "obj" -> \E k \in DOMAIN v.o : HasCycle(v.o[k])
    [] OTHER -> FALSE

(***************************************************************************)
(* detectFormat                                                             *)
(***************************************************************************)
FormatLabels ==
  {"docker-compose", "kubernetes", "terraform", "cloudformation", "azure-arm",
   "ibm-cloud", "unknown"}

\* lines 41-48: the raw-text heuristic for native HCL
HclHeuristic(text) == text.hcl

\* lines 52-78: JSON first, then YAML; the first non-null document of a text
\* with separators.  Returns the parsed value, or the label returned early.
DetectParse(text) ==
  LET j == JSONParse(text) IN
  IF ~Raised(j) THEN [parsed |-> j.value, isJson |-> TRUE]
  ELSE IF text.sep
       THEN LET all == YamlLoadAll(text) IN
            IF Raised(all) THEN [label |-> "unknown"]
            ELSE LET validDocs == ValidDocs(all.value) IN
                 IF Len(validDocs) > 0
                 THEN [parsed |-> validDocs[1], isJson |-> FALSE]
                 ELSE [label |-> "unknown"]
       ELSE LET y == YamlLoad(text) IN
            IF Raised(y) THEN [label |-> "unknown"]
            ELSE [parsed |-> y.value, isJson |-> FALSE]

\* lines 86-94
IsAzureArm(data, isJson) ==
  /\ isJson
  /\ Truthy(Get(data, "$schema"))
  /\ TypeofString(Get(data, "$schema"))
  /\ IncludesDeploymentTemplate(Get(data, "$schema").s)

\* line 97
IsCloudFormation(data) ==
  Truthy(Get(data, "AWSTemplateFormatVersion")) \/ Truthy(Get(data, "Resources"))

\* line 102
IsKubernetes(data) == Truthy(Get(data, "apiVersion")) /\ Truthy(Get(data, "kind"))

\* the test of line 107 with the key services misspelt
IsDockerComposeMisspelt(data) ==
  Truthy(Get(data, "version")) /\ Truthy(Get(data, "service"))

\* line 107
IsDockerCompose(data) == Truthy(Get(data, "version")) /\ Truthy(Get(data, "services"))

\* line 112
IsTerraformKeys(data) ==
  Truthy(Get(data, "terraform")) \/ Truthy(Get(data, "provider"))
    \/ Truthy(Get(data, "resource"))

\* lines 117-120; JSON.stringify raises on a cycle
IsIbmCloud(data) == StringifyIncludesIbm(data)

\* the cascade with Kubernetes tested before CloudFormation
FieldCascadeKubernetesFirst(data, isJson) ==
  IF IsAzureArm(data, isJson) THEN Return("azure-arm")
  ELSE IF IsKubernetes(data) THEN Return("kubernetes")
  ELSE IF IsCloudFormation(data) THEN Return("cloudformation")
  ELSE IF IsDockerCompose(data) THEN Return("docker-compose")
  ELSE IF IsTerraformKeys(data) THEN Return("terraform")
  ELSE IF HasCycle(data) THEN Raise("Converting circular structure to JSON")
  ELSE IF IsIbmCloud(data) THEN Return("ibm-cloud")
  ELSE Return("unknown")

\* lines 84-122: the field-presence cascade, first match wins
FieldCascade(data, isJson) ==
  IF IsAzureArm(data, isJson) THEN Return("azure-arm")
  ELSE IF IsCloudFormation(data) THEN Return("cloudformation")
  ELSE IF IsKubernetes(data) THEN Return("kubernetes")
  ELSE IF IsDockerCompose(data) THEN Return("docker-compose")
  ELSE IF IsTerraformKeys(data) THEN Return("terraform")
  ELSE IF HasCycle(data) THEN Raise("Converting circular structure to JSON")
  ELSE IF IsIbmCloud(data) THEN Return("ibm-cloud")
  ELSE Return("unknown")

\* lines 40-122: the body of the try block
DetectBody(text) ==
  IF HclHeuristic(text) THEN Return("terraform")
  ELSE LET p == DetectParse(text) IN
       IF "label" \in DOMAIN p THEN Return(p.label)
       ELSE IF ~Truthy(p.parsed) \/ ~TypeofObject(p.parsed) THEN Return("unknown")
       ELSE FieldCascade(p.parsed, p.isJson)

\* detectFormat without the outer catch: the exception is what the caller gets
detectFormatUncaught(text) ==
  LET r == DetectBody(text) IN
  IF Raised(r) THEN r.exception ELSE r.value

\* lines 38-126: any exception of the body is the label unknown
detectFormat(text) ==
  LET r == DetectBody(text) IN
  IF Raised(r) THEN "unknown" ELSE r.value


(***************************************************************************)
(* parseHCLToJSON                                                           *)
(***************************************************************************)
\* the elements of a sequence
Range(q) == {q[i] : i \in 1..Len(q)}

\* the value of the last line of q whose key is k (a later assignment to the
\* same property overwrites an earlier one)
LastValue(q, k) ==
  LET i == CHOOSE i \in 1..Len(q) :
             q[i].key = k /\ \A j \in (i + 1)..Len(q) : q[j].key # k
  IN  q[i].value

\* lines 168-220: the attributes of one resource body
HclAttributes(r) ==
  LET \* lines 172-184: key = "value" at the start of a line, tag lines included
      quoted == SelectSeq(r.attrs, LAMBDA a : a.quoted)
                  \o SelectSeq(r.tags, LAMBDA a : a.ownLine)
      \* lines 187-199: key = bare value, kept only if the value holds a dot
      refs == SelectSeq(r.attrs, LAMBDA a : ~a.quoted /\ IncludesDot(a.value))
      qKeys == {a.key : a \in Range(quoted)}
      rKeys == {a.key : a \in Range(refs)}
      \* lines 202-220: the tags block, if it holds an entry
      tKeys == IF Len(r.tags) > 0 THEN {"tags"} ELSE {}
  IN  O([k \in qKeys \cup rKeys \cup tKeys |->
           IF k \in tKeys THEN O([t \in {a.key : a \in Range(r.tags)} |->
                                    S(LastValue(r.tags, t))])
           ELSE IF k \in rKeys THEN S(LastValue(refs, k))
           ELSE S(LastValue(quoted, k))])

\* the last block of q with the given type and name
LastBlock(q, type, name) ==
  LET i == CHOOSE i \in 1..Len(q) :
             /\ q[i].type = type /\ q[i].name = name
             /\ \A j \in (i + 1)..Len(q) : ~(q[j].type = type /\ q[j].name = name)
  IN  q[i]

\* the properties every object inherits from Object.prototype
ObjectPrototypeKeys ==
  { "constructor", "__proto__", "hasOwnProperty", "isPrototypeOf",
    "propertyIsEnumerable", "toLocaleString", "toString", "valueOf",
    "__defineGetter__", "__defineSetter__", "__lookupGetter__", "__lookupSetter__" }

ImmutablePrototype ==
  "Immutable prototype object 'Object.prototype' cannot have their prototype set"

\* lines 164-166, 222-227 and 243-254: result.resource[type] is looked up
\* before it is assigned.  On a type that {} inherits the lookup gives the
\* inherited object, which is truthy: no own entry is made, and the block is
\* assigned as a property of that object.  For "__proto__" that object is
\* Object.prototype, whose own "__proto__" cannot be assigned.
AssignsPrototypeOfPrototype(q) ==
  \E i \in 1..Len(q) : q[i].type = "__proto__" /\ q[i].name = "__proto__"

\* lines 129-277: an object with a key for each kind of block that matched
parseHCLToJSON(text) ==
  LET b == text.blocks
      kinds == {k \in {"provider", "resource", "data", "variable"} : Len(b[k]) > 0}
      named(q) == O([n \in Range(q) |-> O([name |-> S(n)])])
      typed(q, entry(_)) ==
        O([ty \in {x.type : x \in Range(q)}
                    \ (ObjectPrototypeKeys \cup DOMAIN prototype) |->
             O([n \in {x.name : x \in {y \in Range(q) : y.type = ty}} |->
                  entry(LastBlock(q, ty, n))])])
      attrsOf(x) == HclAttributes(x)
      nameOf(x) == O([name |-> S(x.name)])
  IN  IF AssignsPrototypeOfPrototype(b.resource) \/ AssignsPrototypeOfPrototype(b.data)
      THEN Raise(ImmutablePrototype)
      ELSE Return(O([k \in kinds |->
                       CASE k = "provider" -> named(b.provider)
                         [] k = "resource" -> typed(b.resource, attrsOf)
                         [] k = "data" -> typed(b.data, nameOf)
                         [] k = "variable" -> named(b.variable)]))

\* lines 222-227 and 249-254: the properties the extraction sets on
\* Object.prototype.  A block of type "__proto__" is assigned as
\* Object.prototype[name]; the blocks are visited in text order, resources
\* before data sources, up to the one whose assignment raises.
PrototypeAssignments(b) ==
  LET resources == [i \in 1..Len(b.resource) |->
                      [type |-> b.resource[i].type, name |-> b.resource[i].name,
                       value |-> HclAttributes(b.resource[i])]]
      sources == [i \in 1..Len(b.data) |->
                    [type |-> b.data[i].type, name |-> b.data[i].name,
                     value |-> O([name |-> S(b.data[i].name)])]]
      all == resources \o sources
      raising == {i \in 1..Len(all) : all[i].type = "__proto__" /\ all[i].name = "__proto__"}
      done == {i \in 1..Len(all) : all[i].type = "__proto__" /\ \A j \in raising : i < j}
      last(n) == CHOOSE i \in done : all[i].name = n /\ \A j \in done : all[j].name = n => j <= i
  IN  [n \in {all[i].name : i \in done} |-> all[last(n)].value]

(***************************************************************************)
(* validateContent                                                          *)
(***************************************************************************)
Issue(message, arg, type) == [message |-> message, arg |-> arg, type |-> type]

\* lines 5-36: FORMAT_PATTERNS[format].required
RequiredFields(format) ==
  CASE format = "docker-compose" -> <<"version", "services">>
    [] format = "kubernetes" -> <<"apiVersion", "kind">>
    [] format = "cloudformation" -> <<"Resources">>
    [] format = "azure-arm" -> <<"$schema", "contentVersion", "resources">>
    [] OTHER -> <<>>

\* the keys of an object in the order Object.entries visits them; the model
\* keeps an object as an unordered map and fixes one order
RECURSIVE SetToSeq(_)
SetToSeq(set) ==
  IF set = {} THEN <<>>
  ELSE LET x == CHOOSE x \in set : TRUE IN <<x>> \o SetToSeq(set \ {x})

Entries(v) == SetToSeq(Keys(v))

\* the concatenation of f(q[1]), f(q[2]), ...
FlatMap(q, f(_)) ==
  LET go[i \in 0..Len(q)] == IF i = 0 THEN <<>> ELSE go[i - 1] \o f(q[i])
  IN  go[Len(q)]

\* lines 442-466
validateDockerCompose(data) ==
  LET services == Get(data, "services")
      check(serviceName) ==
        LET serviceConfig == Get(services, serviceName) IN
        IF ~Truthy(serviceConfig) \/ ~TypeofObject(serviceConfig)
        THEN <<Issue("Invalid service configuration for: ", serviceName, "error")>>
        ELSE IF ~Truthy(Get(serviceConfig, "image")) /\ ~Truthy(Get(serviceConfig, "build"))
        THEN <<Issue("Service must have either 'image' or 'build' specified",
                     serviceName, "warning")>>
        ELSE <<>>
  IN  IF Truthy(services) /\ TypeofObject(services)
      THEN FlatMap(Entries(services), check)
      ELSE <<>>

\* lines 468-497
validateKubernetes(data) ==
  LET metadata == Get(data, "metadata") IN
  (IF ~TypeofString(Get(data, "apiVersion"))
   THEN <<Issue("apiVersion must be a string", "", "error")>> ELSE <<>>)
  \o (IF ~TypeofString(Get(data, "kind"))
      THEN <<Issue("kind must be a string", "", "error")>> ELSE <<>>)
  \o (IF Truthy(metadata) /\ TypeofObject(metadata) /\ ~Truthy(Get(metadata, "name"))
      THEN <<Issue("metadata.name is required", "", "warning")>> ELSE <<>>)

\* lines 499-523
validateCloudFormation(data) ==
  LET resources == Get(data, "Resources")
      check(resourceName) ==
        LET resourceConfig == Get(resources, resourceName) IN
        IF ~Truthy(resourceConfig) \/ ~TypeofObject(resourceConfig)
        THEN <<Issue("Invalid resource configuration for: ", resourceName, "error")>>
        ELSE IF ~Truthy(Get(resourceConfig, "Type"))
        THEN <<Issue("Resource is missing Type property", resourceName, "error")>>
        ELSE <<>>
  IN  IF Truthy(resources) /\ TypeofObject(resources)
      THEN FlatMap(Entries(resources), check)
      ELSE <<>>

\* lines 525-541
validateTerraform(data) ==
  LET has(k) == Truthy(Get(data, k)) /\ TypeofObject(Get(data, k)) IN
  IF ~has("resource") /\ ~has("data") /\ ~has("module")
  THEN <<Issue("Terraform configuration should contain at least one resource, data source, or module",
               "", "warning")>>
  ELSE <<>>

\* line 437: errors.filter(e => e.type === 'error').length === 0
NoErrorIssue(errors) == \A i \in 1..Len(errors) : errors[i].type # "error"

\* lines 384-440
validateContent(data, format) ==
  IF ~Truthy(data) \/ ~TypeofObject(data)
  THEN [isValid |-> FALSE, errors |-> <<Issue("Invalid data structure", "", "error")>>]
  ELSE IF format = "unknown"
  THEN [isValid |-> FALSE, errors |-> <<Issue("Unknown or unsupported format", "", "error")>>]
  ELSE IF format \notin FormatLabels
  THEN [isValid |-> TRUE, errors |-> <<>>]
  ELSE LET missing(required) ==
             IF ~In(data, required)
             THEN <<Issue("Missing required field: ", required, "error")>>
             ELSE <<>>
           errors ==
             FlatMap(RequiredFields(format), missing)
               \o (CASE format = "docker-compose" -> validateDockerCompose(data)
                     [] format = "kubernetes" -> validateKubernetes(data)
                     [] format = "cloudformation" -> validateCloudFormation(data)
                     [] format = "terraform" -> validateTerraform(data)
                     [] OTHER -> <<>>)
       IN  [isValid |-> NoErrorIssue(errors), errors |-> errors]


(***************************************************************************)
(* parseContent.  A message is the sequence of the pieces of its template;  *)
(* a result is a record that holds the fields the code sets.                *)
(***************************************************************************)
UnableToDetect ==
  <<"Unable to detect supported format",
    ". Please check if your file is valid YAML/JSON and contains supported infrastructure configuration.">>

\* the failure of lines 287-291 without its message
DetectFailureNoMessage == [success |-> FALSE]

\* lines 287-291
DetectFailure == [success |-> FALSE, error |-> UnableToDetect]

\* lines 331-343: the failure that carries the parser's message
ParseFailure(message) ==
  [success |-> FALSE,
   error |-> <<"Failed to parse content: ", message>>,
   validationErrors |-> <<Issue(message, "", "error")>>]

\* lines 353-357
ValidationFailure(validationErrors) ==
  [success |-> FALSE,
   error |-> <<"Validation failed. Please check the errors below.">>,
   validationErrors |-> validationErrors]

\* lines 376-380
UnexpectedFailure(message) ==
  [success |-> FALSE, error |-> <<"Unexpected error: ", message>>]

\* lines 301-305: native HCL goes to the mini-HCL extractor
TakesHclPath(text, format) ==
  format = "terraform" /\ text.lead # "brace" /\ text.lead # "tfcolon"

\* lines 309-321: a text with separators
ParseStream(text) ==
  LET all == YamlLoadAll(text) IN
  IF Raised(all) THEN all
  ELSE LET validDocs == ValidDocs(all.value) IN
       IF Len(validDocs) > 1
       THEN Return([parsed |-> validDocs[1], isMultiDocument |-> TRUE,
                    documents |-> validDocs])
       ELSE LET first == IF Len(validDocs) > 0 THEN validDocs[1] ELSE Undef IN
            IF Truthy(first)
            THEN Return([parsed |-> first, isMultiDocument |-> FALSE, documents |-> <<>>])
            ELSE LET y == YamlLoad(text) IN
                 IF Raised(y) THEN y
                 ELSE Return([parsed |-> y.value, isMultiDocument |-> FALSE,
                              documents |-> <<>>])

\* lines 323-329: JSON first, then YAML
ParseSingle(text) ==
  LET j == JSONParse(text)
      r == IF Raised(j) THEN YamlLoad(text) ELSE j
  IN  IF Raised(r) THEN r
      ELSE Return([parsed |-> r.value, isMultiDocument |-> FALSE, documents |-> <<>>])

\* lines 299-330: the body of the inner try block
ParseStep(text, format) ==
  IF TakesHclPath(text, format)
  THEN LET extracted == parseHCLToJSON(text) IN
       IF Raised(extracted) THEN extracted
       ELSE Return([parsed |-> extracted.value, isMultiDocument |-> FALSE,
                    documents |-> <<>>])
  ELSE IF text.sep THEN ParseStream(text)
  ELSE ParseSingle(text)

\* lines 360-368
ParsedData(format, p, text) ==
  [format |-> format, data |-> p.parsed, originalContent |-> text]
    @@ (IF p.isMultiDocument
        THEN [multiDocument |-> TRUE, documents |-> p.documents]
        ELSE <<>>)

\* lines 370-374
ParseSuccess(data, validationErrors) ==
  [success |-> TRUE, data |-> data]
    @@ (IF Len(validationErrors) > 0
        THEN [validationErrors |-> validationErrors]
        ELSE <<>>)

\* the test of lines 349-352 with any issue blocking
BlocksOnAnyIssue(validation) == Len(validation.errors) > 0

\* lines 345-358: validation errors block, warnings do not
Blocks(validation) ==
  ~validation.isValid
    /\ \E i \in 1..Len(validation.errors) : validation.errors[i].type = "error"

\* what a call of parseContent leaves on Object.prototype
Pollution(text) ==
  IF TakesHclPath(text, detectFormat(text)) THEN PrototypeAssignments(text.blocks)
  ELSE <<>>

\* lines 283-374: the body of the outer try block
ParseBody(text) ==
  LET format == detectFormat(text) IN
  IF format = "unknown" THEN Return(DetectFailure)
  ELSE LET step == ParseStep(text, format) IN
       IF Raised(step) THEN Return(ParseFailure(step.exception))
       ELSE LET validation == validateContent(step.value.parsed, format) IN
            IF Blocks(validation)
            THEN Return(ValidationFailure(validation.errors))
            ELSE Return(ParseSuccess(ParsedData(format, step.value, text),
                                     validation.errors))

\* lines 279-382
parseContent(text) ==
  LET r == ParseBody(text) IN
  IF Raised(r) THEN UnexpectedFailure(r.exception) ELSE r.value


(***************************************************************************)
(* Text at character level.  A string of the markup is a sequence of        *)
(* tokens: single characters, and the literal pieces of the templates       *)
(* (which hold neither quotes, newlines nor identifier characters that the  *)
(* sanitizers act on, unless spelled out).  Chars gives the characters of   *)
(* the strings of the model's documents.                                    *)
(***************************************************************************)
Chars(s) ==
  CASE s = "web" -> <<"w", "e", "b">>
    [] s = "api" -> <<"a", "p", "i">>
    [] s = "nginx" -> <<"n", "g", "i", "n", "x">>
    [] s = "frontend" -> <<"f", "r", "o", "n", "t", "e", "n", "d">>
    [] s = "backend" -> <<"b", "a", "c", "k", "e", "n", "d">>
    [] s = "data" -> <<"d", "a", "t", "a">>
    [] s = "cache" -> <<"c", "a", "c", "h", "e">>
    [] s = "overlay" -> <<"o", "v", "e", "r", "l", "a", "y">>
    [] s = "nfs" -> <<"n", "f", "s">>
    [] s = "bridge" -> <<"b", "r", "i", "d", "g", "e">>
    [] s = "local" -> <<"l", "o", "c", "a", "l">>
    [] s = "custom" -> <<"c", "u", "s", "t", "o", "m">>
    [] s = "network_" -> <<"n", "e", "t", "w", "o", "r", "k", "_">>
    [] s = "volume_" -> <<"v", "o", "l", "u", "m", "e", "_">>
    [] s = "3.8" -> <<"3", ".", "8">>
    [] s = "80:80" -> <<"8", "0", ":", "8", "0">>
    [] s = "always" -> <<"a", "l", "w", "a", "y", "s">>
    [] s = "/app" -> <<"/", "a", "p", "p">>
    [] s = "npm start" -> <<"n", "p", "m", " ", "s", "t", "a", "r", "t">>
    [] s = "node server.js --port 8080" -> <<"n", "o", "d", "e", " ", "s", "e", "r", "v", "e", "r", ".", "j", "s", " ", "-", "-", "p", "o", "r", "t", " ", "8", "0", "8", "0">>
    [] s = "." -> <<".">>
    [] s = "./src:/app" -> <<".", "/", "s", "r", "c", ":", "/", "a", "p", "p">>
    [] s = "data:/var/lib" -> <<"d", "a", "t", "a", ":", "/", "v", "a", "r", "/", "l", "i", "b">>
    [] s = "/tmp:/tmp" -> <<"/", "t", "m", "p", ":", "/", "t", "m", "p">>
    [] s = "postgres:13" -> <<"p", "o", "s", "t", "g", "r", "e", "s", ":", "1", "3">>
    [] s = "my app" -> <<"m", "y", " ", "a", "p", "p">>
    [] s = "Deployment" -> <<"D", "e", "p", "l", "o", "y", "m", "e", "n", "t">>
    [] s = "Service" -> <<"S", "e", "r", "v", "i", "c", "e">>
    [] s = "Ingress" -> <<"I", "n", "g", "r", "e", "s", "s">>
    [] s = "StatefulSet" -> <<"S", "t", "a", "t", "e", "f", "u", "l", "S", "e", "t">>
    [] s = "test" -> <<"t", "e", "s", "t">>
    [] s = "prod" -> <<"p", "r", "o", "d">>
    [] s = "default" -> <<"d", "e", "f", "a", "u", "l", "t">>
    [] s = "nginx-deployment" -> <<"n", "g", "i", "n", "x", "-", "d", "e", "p", "l", "o", "y", "m", "e", "n", "t">>
    [] s = "nginx-service" -> <<"n", "g", "i", "n", "x", "-", "s", "e", "r", "v", "i", "c", "e">>
    [] s = "nginx-ingress" -> <<"n", "g", "i", "n", "x", "-", "i", "n", "g", "r", "e", "s", "s">>
    [] s = "resource_" -> <<"r", "e", "s", "o", "u", "r", "c", "e", "_">>
    [] s = "unknown" -> <<"u", "n", "k", "n", "o", "w", "n">>
    [] s = "apps/v1" -> <<"a", "p", "p", "s", "/", "v", "1">>
    [] s = "v1" -> <<"v", "1">>
    [] s = "MyInstance" -> <<"M", "y", "I", "n", "s", "t", "a", "n", "c", "e">>
    [] s = "AWS::EC2::Instance" -> <<"A", "W", "S", ":", ":", "E", "C", "2", ":", ":", "I", "n", "s", "t", "a", "n", "c", "e">>
    [] s = "Unknown" -> <<"U", "n", "k", "n", "o", "w", "n">>
    [] s = "param_" -> <<"p", "a", "r", "a", "m", "_">>
    [] s = "Microsoft.Compute/virtualMachines" -> <<"M", "i", "c", "r", "o", "s", "o", "f", "t", ".", "C", "o", "m", "p", "u", "t", "e", "/", "v", "i", "r", "t", "u", "a", "l", "M", "a", "c", "h", "i", "n", "e", "s">>
    [] s = "myVM" -> <<"m", "y", "V", "M">>
    [] s = "_dep" -> <<"_", "d", "e", "p">>
    [] s = "vpc" -> <<"v", "p", "c">>
    [] s = "ibm_is_vpc" -> <<"i", "b", "m", "_", "i", "s", "_", "v", "p", "c">>
    [] s = "IBM_IS_SUBNET" -> <<"I", "B", "M", "_", "I", "S", "_", "S", "U", "B", "N", "E", "T">>
    [] s = "data_" -> <<"d", "a", "t", "a", "_">>
    [] s = "var_" -> <<"v", "a", "r", "_">>
    [] s = "aws_instance" -> <<"a", "w", "s", "_", "i", "n", "s", "t", "a", "n", "c", "e">>
    [] s = "aws_subnet" -> <<"a", "w", "s", "_", "s", "u", "b", "n", "e", "t">>
    [] s = "sub1" -> <<"s", "u", "b", "1">>
    [] s = "ami-123456" -> <<"a", "m", "i", "-", "1", "2", "3", "4", "5", "6">>
    [] s = "aws_ami" -> <<"a", "w", "s", "_", "a", "m", "i">>
    [] s = "ubuntu" -> <<"u", "b", "u", "n", "t", "u">>
    [] s = "region" -> <<"r", "e", "g", "i", "o", "n">>
    [] s = "aws" -> <<"a", "w", "s">>
    [] s = "ibm" -> <<"i", "b", "m">>
    [] s = "1.0" -> <<"1", ".", "0">>
    [] s = "2010-09-09" -> <<"2", "0", "1", "0", "-", "0", "9", "-", "0", "9">>
    [] s = "1.0.0.0" -> <<"1", ".", "0", ".", "0", ".", "0">>
    [] s = "2019-07-01" -> <<"2", "0", "1", "9", "-", "0", "7", "-", "0", "1">>
    [] s = "us-east-1" -> <<"u", "s", "-", "e", "a", "s", "t", "-", "1">>
    [] s = ">= 1.0" -> <<">", "=", " ", "1", ".", "0">>
    [] s = "hello" -> <<"h", "e", "l", "l", "o">>
    [] s = "just some prose" -> <<"j", "u", "s", "t", " ", "s", "o", "m", "e", " ", "p", "r", "o", "s", "e">>
    [] s = "Name" -> <<"N", "a", "m", "e">>
    [] s = "sub" -> <<"s", "u", "b">>
    [] s = "aws_vpc.main.id" -> <<"a", "w", "s", "_", "v", "p", "c", ".", "m", "a", "i", "n", ".", "i", "d">>
    [] s = "vpc_id" -> <<"v", "p", "c", "_", "i", "d">>
    [] s = "ami" -> <<"a", "m", "i">>
    [] s = "name" -> <<"n", "a", "m", "e">>
    [] s = "Env" -> <<"E", "n", "v">>
    [] s = "DbPassword" -> <<"D", "b", "P", "a", "s", "s", "w", "o", "r", "d">>
    [] s = "Db" -> <<"D", "b">>
    [] s = "network" -> <<"n", "e", "t", "w", "o", "r", "k">>
    [] s = "instance" -> <<"i", "n", "s", "t", "a", "n", "c", "e">>
    [] s = "server" -> <<"s", "e", "r", "v", "e", "r">>
    [] s = "db" -> <<"d", "b">>
    [] s = "database" -> <<"d", "a", "t", "a", "b", "a", "s", "e">>
    [] s = "lb" -> <<"l", "b">>
    [] s = "balancer" -> <<"b", "a", "l", "a", "n", "c", "e", "r">>
    [] s = "storage" -> <<"s", "t", "o", "r", "a", "g", "e">>
    [] s = "bucket" -> <<"b", "u", "c", "k", "e", "t">>
    [] s = "constructor" -> <<"c", "o", "n", "s", "t", "r", "u", "c", "t", "o", "r">>
    [] s = "__proto__" -> <<"_", "_", "p", "r", "o", "t", "o", "_", "_">>
    [] s = "hasOwnProperty" -> <<"h", "a", "s", "O", "w", "n", "P", "r", "o", "p", "e", "r", "t", "y">>
    [] s = "isPrototypeOf" -> <<"i", "s", "P", "r", "o", "t", "o", "t", "y", "p", "e", "O", "f">>
    [] s = "propertyIsEnumerable" -> <<"p", "r", "o", "p", "e", "r", "t", "y", "I", "s", "E", "n", "u", "m", "e", "r", "a", "b", "l", "e">>
    [] s = "toLocaleString" -> <<"t", "o", "L", "o", "c", "a", "l", "e", "S", "t", "r", "i", "n", "g">>
    [] s = "toString" -> <<"t", "o", "S", "t", "r", "i", "n", "g">>
    [] s = "valueOf" -> <<"v", "a", "l", "u", "e", "O", "f">>
    [] s = "${aws_vpc.main.id}" -> <<"$", "{", "a", "w", "s", "_", "v", "p", "c", ".", "m", "a", "i", "n", ".", "i", "d", "}">>
    [] s = "${var.region}" -> <<"$", "{", "v", "a", "r", ".", "r", "e", "g", "i", "o", "n", "}">>
    [] s = "${local.tags}" -> <<"$", "{", "l", "o", "c", "a", "l", ".", "t", "a", "g", "s", "}">>
    [] s = "${var.region}-${aws_vpc.main.id}" -> <<"$", "{", "v", "a", "r", ".", "r", "e", "g", "i", "o", "n", "}", "-", "$", "{", "a", "w", "s", "_", "v", "p", "c", ".", "m", "a", "i", "n", ".", "i", "d", "}">>
    [] s = "${count}" -> <<"$", "{", "c", "o", "u", "n", "t", "}">>
    [] s = "${data.aws_ami.ubuntu.id}" -> <<"$", "{", "d", "a", "t", "a", ".", "a", "w", "s", "_", "a", "m", "i", ".", "u", "b", "u", "n", "t", "u", ".", "i", "d", "}">>
    [] s = "aws_vpc.main" -> <<"a", "w", "s", "_", "v", "p", "c", ".", "m", "a", "i", "n">>
    [] s = "aws_vpc" -> <<"a", "w", "s", "_", "v", "p", "c">>
    [] s = "main" -> <<"m", "a", "i", "n">>
    [] s = "cidr_block" -> <<"c", "i", "d", "r", "_", "b", "l", "o", "c", "k">>
    [] s = "10.0.0.0/16" -> <<"1", "0", ".", "0", ".", "0", ".", "0", "/", "1", "6">>
    [] s = "var" -> <<"v", "a", "r">>
    [] s = "depends_on" -> <<"d", "e", "p", "e", "n", "d", "s", "_", "o", "n">>
    [] s = "az" -> <<"a", "z">>
    [] s = "" -> <<>>
    [] s = "Web" -> <<"W", "e", "b">>
    [] s = "Queue" -> <<"Q", "u", "e", "u", "e">>
    [] s = "Size" -> <<"S", "i", "z", "e">>
    [] s = "String" -> <<"S", "t", "r", "i", "n", "g">>
    [] s = "param_Env" -> <<"p", "a", "r", "a", "m", "_", "E", "n", "v">>
    [] s = "param_Size" -> <<"p", "a", "r", "a", "m", "_", "S", "i", "z", "e">>
    [] s = "vm_web_0_dep" -> <<"v", "m", "_", "w", "e", "b", "_", "0", "_", "d", "e", "p">>
    [] s = "vm_web_1" -> <<"v", "m", "_", "w", "e", "b", "_", "1">>
    [] s = "vm" -> <<"v", "m">>
    [] s = "net" -> <<"n", "e", "t">>
    [] s = "vm_web_0" -> <<"v", "m", "_", "w", "e", "b", "_", "0">>
    [] s = "network_backend" -> <<"n", "e", "t", "w", "o", "r", "k", "_", "b", "a", "c", "k", "e", "n", "d">>
    [] s = "network_frontend" -> <<"n", "e", "t", "w", "o", "r", "k", "_", "f", "r", "o", "n", "t", "e", "n", "d">>
    [] s = "Service_api_prod" -> <<"S", "e", "r", "v", "i", "c", "e", "_", "a", "p", "i", "_", "p", "r", "o", "d">>
    [] s = "Deployment_api_prod" -> <<"D", "e", "p", "l", "o", "y", "m", "e", "n", "t", "_", "a", "p", "i", "_", "p", "r", "o", "d">>
    [] s = "StatefulSet_db_prod" -> <<"S", "t", "a", "t", "e", "f", "u", "l", "S", "e", "t", "_", "d", "b", "_", "p", "r", "o", "d">>
    [] s = "a\"b" -> <<"a", "\"", "b">>
    [] s = "Resources" -> <<"R", "e", "s", "o", "u", "r", "c", "e", "s">>
    [] s = "web-app" -> <<"w", "e", "b", "-", "a", "p", "p">>
    [] s = "production" -> <<"p", "r", "o", "d", "u", "c", "t", "i", "o", "n">>
    [] s = "graph TD" -> <<"g", "r", "a", "p", "h", " ", "T", "D">>
    [] s = "flowchart TD" -> <<"f", "l", "o", "w", "c", "h", "a", "r", "t", " ", "T", "D">>
    [] s = "Service_unknown_default" -> <<"S", "e", "r", "v", "i", "c", "e", "_", "u", "n", "k", "n", "o", "w", "n", "_", "d", "e", "f", "a", "u", "l", "t">>
    [] s = "Deployment_nginx-deployment_default" -> <<"D", "e", "p", "l", "o", "y", "m", "e", "n", "t", "_", "n", "g", "i", "n", "x", "-", "d", "e", "p", "l", "o", "y", "m", "e", "n", "t", "_", "d", "e", "f", "a", "u", "l", "t">>
    [] s = "Service_resource_0_default" -> <<"S", "e", "r", "v", "i", "c", "e", "_", "r", "e", "s", "o", "u", "r", "c", "e", "_", "0", "_", "d", "e", "f", "a", "u", "l", "t">>
    [] s = "Service_resource_1_default" -> <<"S", "e", "r", "v", "i", "c", "e", "_", "r", "e", "s", "o", "u", "r", "c", "e", "_", "1", "_", "d", "e", "f", "a", "u", "l", "t">>
    [] s = "aws_vpc_main" -> <<"a", "w", "s", "_", "v", "p", "c", "_", "m", "a", "i", "n">>
    [] s = "aws_subnet_sub1" -> <<"a", "w", "s", "_", "s", "u", "b", "n", "e", "t", "_", "s", "u", "b", "1">>
    [] s = "tags" -> <<"t", "a", "g", "s">>
    [] s = "__defineGetter__" -> <<"_", "_", "d", "e", "f", "i", "n", "e", "G", "e", "t", "t", "e", "r", "_", "_">>
    [] s = "__defineSetter__" -> <<"_", "_", "d", "e", "f", "i", "n", "e", "S", "e", "t", "t", "e", "r", "_", "_">>
    [] s = "__lookupGetter__" -> <<"_", "_", "l", "o", "o", "k", "u", "p", "G", "e", "t", "t", "e", "r", "_", "_">>
    [] s = "__lookupSetter__" -> <<"_", "_", "l", "o", "o", "k", "u", "p", "S", "e", "t", "t", "e", "r", "_", "_">>

Digits == {"0", "1", "2", "3", "4", "5", "6", "7", "8", "9"}

Letters ==
  {"a", "b", "c", "d", "e", "f", "g", "h", "i", "j", "k", "l", "m", "n", "o", "p",
   "q", "r", "s", "t", "u", "v", "w", "x", "y", "z",
   "A", "B", "C", "D", "E", "F", "G", "H", "I", "J", "K", "L", "M", "N", "O", "P",
   "Q", "R", "S", "T", "U", "V", "W", "X", "Y", "Z"}

\* String(n) for a small non-negative number
RECURSIVE NumChars(_)
NumChars(n) ==
  LET digit(d) == <<"0", "1", "2", "3", "4", "5", "6", "7", "8", "9">>[d + 1]
  IN  IF n < 10 THEN <<digit(n)>> ELSE NumChars(n \div 10) \o <<digit(n % 10)>>

\* `${v}`: the string a template literal makes of a value
ToStr(v) ==
  CASE v.t = "str" -> Chars(v.s)
    [] v.t = "num" -> NumChars(v.n)
    [] v.t = "null" -> <<"n", "u", "l", "l">>
    [] v.t = "undef" -> <<"u", "n", "d", "e", "f", "i", "n", "e", "d">>
    [] v.t = "arr" -> <<"[array]">>
    [] OTHER -> <<"[object Object]">>

\* q with f applied to each element
MapSeq(q, f(_)) == [i \in 1..Len(q) |-> f(q[i])]

(***************************************************************************)
(* sanitizeNodeId and sanitizeLabel (mermaidGenerator.ts lines 3-13)        *)
(***************************************************************************)
\* line 5: .replace(/[^a-zA-Z0-9_-]/g, '_')
ReplaceUnsafe(q) ==
  MapSeq(q, LAMBDA c : IF c \in Letters \cup Digits \cup {"_", "-"} THEN c ELSE "_")

\* line 6: .replace(/^[0-9]/, 'n$&')
PrefixDigit(q) == IF Len(q) > 0 /\ q[1] \in Digits THEN <<"n">> \o q ELSE q

\* line 7: .replace(/_+/g, '_')
CollapseUnderscores(q) ==
  LET keep == {i \in 1..Len(q) : ~(q[i] = "_" /\ i > 1 /\ q[i - 1] = "_")}
      go[i \in 0..Len(q)] ==
        IF i = 0 THEN <<>>
        ELSE IF i \in keep THEN Append(go[i - 1], q[i]) ELSE go[i - 1]
  IN  go[Len(q)]

\* line 8: .replace(/^_|_$/g, '')
TrimUnderscores(q) ==
  LET a == IF Len(q) > 0 /\ q[1] = "_" THEN 2 ELSE 1
      b == IF Len(q) >= a /\ q[Len(q)] = "_" THEN Len(q) - 1 ELSE Len(q)
  IN  SubSeq(q, a, b)

sanitizeNodeId(id) ==
  TrimUnderscores(CollapseUnderscores(PrefixDigit(ReplaceUnsafe(id))))

Whitespace == {" ", "\t", "\n"}

\* String.prototype.trim
Trim(q) ==
  LET inner == {i \in 1..Len(q) : q[i] \notin Whitespace} IN
  IF inner = {} THEN <<>>
  ELSE SubSeq(q, CHOOSE i \in inner : \A j \in inner : i <= j,
                 CHOOSE i \in inner : \A j \in inner : i >= j)

\* lines 11-13: quotes to &quot;, newlines to <br/>, then trim
sanitizeLabel(label) ==
  Trim(MapSeq(label, LAMBDA c : IF c = "\"" THEN "&quot;"
                                ELSE IF c = "\n" THEN "<br/>" ELSE c))


(***************************************************************************)
(* Markup.  mermaidCode is the sequence of its lines; a line is a record.   *)
(***************************************************************************)
HeaderLine(text) == [kind |-> "header", text |-> text]
SubgraphLine(id, label) == [kind |-> "subgraph", id |-> id, label |-> label]
EndLine == [kind |-> "end"]
NodeLine(id, label) == [kind |-> "node", id |-> id, label |-> label]
ClassLine(id, class) == [kind |-> "class", id |-> id, class |-> class]
EdgeLine(from, arrow, label, to) ==
  [kind |-> "edge", from |-> from, arrow |-> arrow, label |-> label, to |-> to]
ClassDefs(names) == [kind |-> "classDefs", names |-> names]

\* q[1], sep, q[2], ..., the elements being token sequences
Join(q, sep) ==
  LET go[i \in 0..Len(q)] ==
        IF i = 0 THEN <<>>
        ELSE IF i = 1 THEN q[1] ELSE go[i - 1] \o sep \o q[i]
  IN  go[Len(q)]

\* Object.entries(v): name (as characters) and value of each own property
ObjectEntries(v) ==
  CASE v.t = "obj" -> MapSeq(Entries(v), LAMBDA k : [name |-> Chars(k), value |-> v.o[k]])
    [] v.t = "arr" -> [i \in 1..Len(v.a) |-> [name |-> NumChars(i - 1), value |-> v.a[i]]]
    [] OTHER -> <<>>

\* Array.isArray(v) ? v : [v]
AsArray(v) == IF v.t = "arr" THEN v.a ELSE <<v>>

\* s.includes(word), for the words the generators look for in an image name
IncludesWord(s, word) ==
  <<s, word>> \in {<<"nginx", "nginx">>, <<"postgres:13", "postgres">>}

ImageWords ==
  <<"nginx", "apache", "postgres", "mysql", "mongo", "redis", "memcached",
    "node", "python", "java">>

(***************************************************************************)
(* generateDockerComposeDiagram (mermaidGenerator.ts lines 49-248)          *)
(***************************************************************************)
\* lines 118-134: image.includes(...) picks the class, first match wins
ServiceClass(image) ==
  LET has(w) == IF image.t = "str" THEN IncludesWord(image.s, w)
                ELSE \E i \in 1..Len(image.a) : image.a[i] = S(w)
  IN  IF has("nginx") \/ has("apache") THEN "webServer"
      ELSE IF has("postgres") \/ has("mysql") \/ has("mongo") THEN "database"
      ELSE IF has("redis") \/ has("memcached") THEN "cache"
      ELSE IF has("node") \/ has("python") \/ has("java") THEN "application"
      ELSE "none"

\* lines 64-66: const image = (config.image as string) || 'custom'
ServiceImage(config) == OrElse(Get(config, "image"), S("custom"))

\* the TypeError the walk of one service raises, or "" for none:
\* line 66 reads config.image, line 118 calls image.includes
ServiceError(config) ==
  IF Nullish(config) THEN "Cannot read properties of null (reading 'image')"
  ELSE IF ServiceImage(config).t \notin {"str", "arr"}
       THEN "image.includes is not a function"
  ELSE ""

\* lines 105-112: the command, cut to 20 characters
CommandDetail(command) ==
  LET cmd == IF command.t = "arr"
             THEN Join(MapSeq(command.a, ToStr), <<" ">>)
             ELSE ToStr(command)
      long == command.t \in {"arr", "str"} /\ Len(cmd) > 20
  IN  <<"cmd: ">> \o (IF long THEN SubSeq(cmd, 1, 20) \o <<"...">> ELSE cmd)

\* lines 69-112: detailsArray of one service
ServiceDetails(serviceName, config) ==
  LET ports == Get(config, "ports")
      environment == Get(config, "environment")
      volumes == Get(config, "volumes")
      restart == Get(config, "restart")
      working_dir == Get(config, "working_dir")
      command == Get(config, "command")
      envCount == CASE environment.t = "arr" -> Len(environment.a)
                    [] environment.t = "obj" -> Cardinality(Keys(environment))
                    [] environment.t = "str" -> Len(Chars(environment.s))
                    [] OTHER -> 0
  IN  <<(<<"<b>">> \o serviceName \o <<"</b>">>),
        (<<"image: ">> \o ToStr(ServiceImage(config)))>>
      \o (IF Truthy(ports)
          THEN MapSeq(AsArray(ports), LAMBDA port : <<"port: ">> \o ToStr(port))
          ELSE <<>>)
      \o (IF Truthy(environment)
          THEN <<NumChars(envCount) \o <<" env vars">>>> ELSE <<>>)
      \o (IF Truthy(volumes)
          THEN <<NumChars(Len(AsArray(volumes))) \o <<" volumes">>>> ELSE <<>>)
      \o (IF Truthy(restart) THEN <<(<<"restart: ">> \o ToStr(restart))>> ELSE <<>>)
      \o (IF Truthy(working_dir) THEN <<(<<"dir: ">> \o ToStr(working_dir))>> ELSE <<>>)
      \o (IF Truthy(command) THEN <<CommandDetail(command)>> ELSE <<>>)

\* lines 63-135: the node of one service and its class
ServiceNode(entry) ==
  LET nodeId == sanitizeNodeId(entry.name)
      label == sanitizeLabel(Join(ServiceDetails(entry.name, entry.value), <<"<br/>">>))
      class == ServiceClass(ServiceImage(entry.value))
  IN  <<NodeLine(nodeId, label)>>
        \o (IF class = "none" THEN <<>> ELSE <<ClassLine(nodeId, class)>>)

\* the edges of lines 140-155 drawn from the dependent to the dependency
DependsOnEdgesReversed(entry) ==
  LET depends_on == Get(entry.value, "depends_on")
      edge(dep) ==
        IF dep.t = "str"
        THEN <<EdgeLine(sanitizeNodeId(entry.name), "-->", "depends on",
                        sanitizeNodeId(Chars(dep.s)))>>
        ELSE <<>>
  IN  IF Truthy(depends_on) THEN FlatMap(AsArray(depends_on), edge) ELSE <<>>

\* lines 140-155: depends_on edges, from the dependency to the dependent
DependsOnEdges(entry) ==
  LET depends_on == Get(entry.value, "depends_on")
      edge(dep) ==
        IF dep.t = "str"
        THEN <<EdgeLine(sanitizeNodeId(Chars(dep.s)), "-->", "depends on",
                        sanitizeNodeId(entry.name))>>
        ELSE <<>>
  IN  IF Truthy(depends_on) THEN FlatMap(AsArray(depends_on), edge) ELSE <<>>

\* the node with the network's fallback driver used for volumes as well
ResourceNodeBridgeFallback(prefix, class, defaultDriver, entry) ==
  LET nodeId == sanitizeNodeId(Chars(prefix) \o entry.name)
      config == OrElse(entry.value, EmptyObj)
      driver == OrElse(Get(config, "driver"), S("bridge"))
      label == sanitizeLabel(<<"[" \o class \o "] ">> \o entry.name
                               \o <<"<br/>", "Driver: ">> \o ToStr(driver))
  IN  <<NodeLine(nodeId, label), ClassLine(nodeId, class)>>

\* lines 161-170 and 195-204: the node of a top-level network or volume;
\* a null config is read as {} and shows the default driver
ResourceNode(prefix, class, defaultDriver, entry) ==
  LET nodeId == sanitizeNodeId(Chars(prefix) \o entry.name)
      config == OrElse(entry.value, EmptyObj)
      driver == OrElse(Get(config, "driver"), S(defaultDriver))
      label == sanitizeLabel(<<"[" \o class \o "] ">> \o entry.name
                               \o <<"<br/>", "Driver: ">> \o ToStr(driver))
  IN  <<NodeLine(nodeId, label), ClassLine(nodeId, class)>>

\* lines 175-188: service -.-> network, for each network the service lists
NetworkEdges(entry) ==
  LET networks == Get(entry.value, "networks")
      names == IF networks.t = "arr" THEN MapSeq(networks.a, ToStr)
               ELSE MapSeq(ObjectEntries(networks), LAMBDA e : e.name)
      edge(networkName) ==
        <<EdgeLine(sanitizeNodeId(entry.name), "-.->", "connects to",
                   sanitizeNodeId(Chars("network_") \o networkName))>>
  IN  IF Truthy(networks) THEN FlatMap(names, edge) ELSE <<>>

\* volume.split(':')[0], and whether split(':') has two parts or more
BeforeColon(q) ==
  LET colons == {i \in 1..Len(q) : q[i] = ":"} IN
  IF colons = {} THEN q
  ELSE SubSeq(q, 1, (CHOOSE i \in colons : \A j \in colons : i <= j) - 1)

HasColon(q) == \E i \in 1..Len(q) : q[i] = ":"

\* lines 209-230: named volume -.-> service; a bind mount starts with . or /
VolumeEdges(entry) ==
  LET volumes == Get(entry.value, "volumes")
      edge(volume) ==
        IF volume.t = "str" /\ HasColon(Chars(volume.s))
        THEN LET volumeName == BeforeColon(Chars(volume.s)) IN
             IF Len(volumeName) > 0 /\ volumeName[1] \in {".", "/"}
             THEN <<>>
             ELSE <<EdgeLine(sanitizeNodeId(Chars("volume_") \o volumeName), "-.->",
                             "mounts to", sanitizeNodeId(entry.name))>>
        ELSE <<>>
  IN  IF Truthy(volumes) THEN FlatMap(AsArray(volumes), edge) ELSE <<>>

DockerClassDefs ==
  ClassDefs(<<"webServer", "database", "cache", "application", "network", "volume">>)

\* lines 49-248.  The first service whose walk raises ends the generation.
generateDockerComposeDiagram(parsedData) ==
  LET data == parsedData.data IN
  IF Nullish(data) THEN Raise("Cannot read properties of null (reading 'services')")
  ELSE
  LET services == ObjectEntries(OrElse(Get(data, "services"), EmptyObj))
      networks == ObjectEntries(OrElse(Get(data, "networks"), EmptyObj))
      volumes == ObjectEntries(OrElse(Get(data, "volumes"), EmptyObj))
      failing == {i \in 1..Len(services) : ServiceError(services[i].value) # ""}
      netNode(e) == ResourceNode("network_", "network", "bridge", e)
      volNode(e) == ResourceNode("volume_", "volume", "local", e)
  IN  IF failing # {}
      THEN Raise(ServiceError(services[CHOOSE i \in failing : \A j \in failing : i <= j].value))
      ELSE Return(
        [success |-> TRUE,
         mermaidCode |->
           <<HeaderLine("flowchart TD"), SubgraphLine("Services", "Services")>>
           \o FlatMap(services, ServiceNode)
           \o <<EndLine>>
           \o FlatMap(services, DependsOnEdges)
           \o (IF Len(networks) > 0
               THEN <<SubgraphLine("Networks", "Networks")>>
                    \o FlatMap(networks, netNode) \o <<EndLine>>
                    \o FlatMap(services, NetworkEdges)
               ELSE <<>>)
           \o (IF Len(volumes) > 0
               THEN <<SubgraphLine("Volumes", "Volumes")>>
                    \o FlatMap(volumes, volNode) \o <<EndLine>>
                    \o FlatMap(services, VolumeEdges)
               ELSE <<>>)
           \o <<DockerClassDefs>>,
         diagramType |-> "flowchart"])


(***************************************************************************)
(* generateKubernetesDiagram (lines 250-535): the grouping by namespace,    *)
(* the node of each resource, and the accesses of the label enrichment      *)
(* that raise on a null entry.                                              *)
(***************************************************************************)
\* lines 268-278: the resources of the pass
K8sResources(parsedData) ==
  IF "multiDocument" \in DOMAIN parsedData /\ parsedData.multiDocument
       /\ "documents" \in DOMAIN parsedData
  THEN SelectSeq(parsedData.documents, LAMBDA doc : Truthy(doc) /\ TypeofObject(doc))
  ELSE <<parsedData.data>>

\* lines 259-260
K8sNamespace(resource) ==
  ToStr(OrElse(Get(OrElse(Get(resource, "metadata"), EmptyObj), "namespace"),
               S("default")))

\* lines 258-266: processResource reads resource.metadata, and looks the
\* namespace up in the object literal namespaces: for a name that the
\* literal inherits the lookup is truthy, no array is made and push is
\* called on what was inherited
K8sGroupingError(resource) ==
  IF Nullish(resource) THEN "Cannot read properties of null (reading 'metadata')"
  ELSE IF K8sNamespace(resource)
            \in {Chars(k) : k \in ObjectPrototypeKeys \cup DOMAIN prototype}
       THEN "namespaces[namespace].push is not a function"
  ELSE ""

\* lines 312-358 and 383-388: container, port and service-port entries are
\* read without a null check
K8sResourceError(resource) ==
  LET kind == Get(resource, "kind")
      spec == Get(resource, "spec")
      template == IF Nullish(spec) THEN Undef ELSE Get(spec, "template")
      podSpec == IF Nullish(template) THEN Undef ELSE Get(template, "spec")
      containers == IF Nullish(podSpec) THEN Undef ELSE Get(podSpec, "containers")
      first == IF containers.t = "arr" /\ Len(containers.a) > 0
               THEN containers.a[1] ELSE EmptyObj
      ports == IF Nullish(first) THEN Undef ELSE Get(first, "ports")
      svcPorts == IF Nullish(spec) THEN Undef ELSE Get(spec, "ports")
  IN  IF kind = S("Deployment") /\ Truthy(spec) /\ Truthy(podSpec) /\ Nullish(first)
      THEN "Cannot read properties of null (reading 'image')"
      ELSE IF kind = S("Deployment") /\ Truthy(spec) /\ Truthy(podSpec)
                /\ ports.t = "arr" /\ \E i \in 1..Len(ports.a) : Nullish(ports.a[i])
      THEN "Cannot read properties of null (reading 'containerPort')"
      ELSE IF kind = S("Service") /\ Truthy(spec)
                /\ svcPorts.t = "arr" /\ \E i \in 1..Len(svcPorts.a) : Nullish(svcPorts.a[i])
      THEN "Cannot read properties of null (reading 'port')"
      ELSE ""

\* lines 284-291, 462-478: the node of the index-th resource of a namespace;
\* the label is the name and the kind (the enrichment of lines 293-460 adds
\* text to the label only and is left out)
K8sNode(resource, index, namespaceName) ==
  LET kind == Get(resource, "kind")
      metadata == OrElse(Get(resource, "metadata"), EmptyObj)
      name == IF Truthy(Get(metadata, "name")) THEN ToStr(Get(metadata, "name"))
              ELSE Chars("resource_") \o NumChars(index)
      nodeId == sanitizeNodeId(ToStr(kind) \o <<"_">> \o name \o <<"_">> \o namespaceName)
      label == sanitizeLabel(<<"<b>">> \o name \o <<"</b>", "<br/>", "kind: ">> \o ToStr(kind))
      class == IF kind \in {S("Deployment"), S("StatefulSet"), S("DaemonSet")} THEN "workload"
               ELSE IF kind = S("Service") THEN "service"
               ELSE IF kind \in {S("ConfigMap"), S("Secret")} THEN "config"
               ELSE IF kind = S("PersistentVolumeClaim") THEN "storage"
               ELSE "none"
  IN  <<NodeLine(nodeId, label)>>
        \o (IF class = "none" THEN <<>> ELSE <<ClassLine(nodeId, class)>>)

\* lines 262-265 and 281: the namespaces in the order of their first
\* resource (no namespace of the model is an integer, which Object.entries
\* would visit first)
K8sNamespaces(resources) ==
  LET go[i \in 0..Len(resources)] ==
        IF i = 0 THEN <<>>
        ELSE LET ns == K8sNamespace(resources[i]) IN
             IF ns \in Range(go[i - 1]) THEN go[i - 1] ELSE Append(go[i - 1], ns)
  IN  go[Len(resources)]

\* lines 485-520: a Service with a selector points at every Deployment and
\* StatefulSet of its namespace, in the order of the namespaces' resources
K8sSelectEdges(ordered) ==
  LET idOf(r) ==
        sanitizeNodeId(ToStr(Get(r, "kind")) \o <<"_">>
          \o ToStr(OrElse(Get(OrElse(Get(r, "metadata"), EmptyObj), "name"), S("unknown")))
          \o <<"_">> \o K8sNamespace(r))
      from(r) ==
        IF Get(r, "kind") = S("Service") /\ ~Nullish(Get(r, "spec"))
             /\ Truthy(Get(Get(r, "spec"), "selector"))
        THEN FlatMap(ordered,
               LAMBDA other :
                 IF Get(other, "kind") \in {S("Deployment"), S("StatefulSet")}
                      /\ K8sNamespace(other) = K8sNamespace(r)
                 THEN <<EdgeLine(idOf(r), "-->", "selects", idOf(other))>>
                 ELSE <<>>)
        ELSE <<>>
  IN  FlatMap(ordered, from)

K8sClassDefs == ClassDefs(<<"workload", "service", "config", "storage">>)

generateKubernetesDiagram(parsedData) ==
  LET resources == K8sResources(parsedData)
      ordered == FlatMap(K8sNamespaces(resources),
                   LAMBDA ns : SelectSeq(resources, LAMBDA r : K8sNamespace(r) = ns))
      ungrouped == {i \in 1..Len(resources) : K8sGroupingError(resources[i]) # ""}
      failing == {i \in 1..Len(ordered) : K8sResourceError(ordered[i]) # ""}
      group(ns) ==
        LET members == SelectSeq([i \in 1..Len(resources) |-> i],
                                 LAMBDA i : K8sNamespace(resources[i]) = ns) IN
        <<SubgraphLine(<<"N", "S", "_">> \o sanitizeNodeId(ns), ns)>>
          \o FlatMap([i \in 1..Len(members) |-> [r |-> resources[members[i]], index |-> i - 1]],
                     LAMBDA m : K8sNode(m.r, m.index, ns))
          \o <<EndLine>>
  IN  IF ungrouped # {}
      THEN Raise(K8sGroupingError(resources[CHOOSE i \in ungrouped : \A j \in ungrouped : i <= j]))
      ELSE IF failing # {}
      THEN Raise(K8sResourceError(ordered[CHOOSE i \in failing : \A j \in failing : i <= j]))
      ELSE Return(
        [success |-> TRUE,
         mermaidCode |->
           <<HeaderLine("flowchart TD")>>
           \o FlatMap(K8sNamespaces(resources), group)
           \o K8sSelectEdges(ordered)
           \o <<K8sClassDefs>>,
         diagramType |-> "flowchart"])

(***************************************************************************)
(* generateTerraformDiagram (lines 537-808): the three groups and the node  *)
(* of each resource, data source and variable, and the dependency edges.    *)
(***************************************************************************)
\* lines 549-560: a group is drawn if its key holds an object with a key
TfHas(data, k) ==
  Truthy(Get(data, k)) /\ TypeofObject(Get(data, k))
    /\ Len(ObjectEntries(Get(data, k))) > 0

\* q.includes(word), on characters
IncludesChars(q, word) ==
  \E i \in 1..Len(q) :
    i + Len(word) - 1 <= Len(q) /\ SubSeq(q, i, i + Len(word) - 1) = word

\* lines 623-649: the class of a resource type, first match wins
TfResourceClass(resourceType) ==
  LET has(word) == IncludesChars(resourceType, Chars(word)) IN
  IF has("vpc") \/ has("network") THEN "network"
  ELSE IF has("instance") \/ has("server") THEN "compute"
  ELSE IF has("db") \/ has("database") THEN "database"
  ELSE IF has("lb") \/ has("balancer") THEN "loadbalancer"
  ELSE IF has("storage") \/ has("bucket") THEN "storage"
  ELSE ""

\* lines 567-653 and 663-698: one node per instance of each type; the label
\* is the instance's name and its type (the provider details, which add
\* text to the label only, are left out)
TfInstanceNodes(group, idPrefix, isDataSource) ==
  LET classOf(type) == IF isDataSource THEN "datasource" ELSE TfResourceClass(type)
      ofType(t) ==
        IF TypeofObject(t.value) /\ Truthy(t.value)
        THEN FlatMap(ObjectEntries(t.value),
               LAMBDA inst :
                 LET nodeId == sanitizeNodeId(idPrefix \o t.name \o <<"_">> \o inst.name) IN
                 <<NodeLine(nodeId,
                            sanitizeLabel(<<"<b>">> \o inst.name \o <<"</b>", "<br/>">> \o t.name))>>
                   \o (IF classOf(t.name) = "" THEN <<>>
                       ELSE <<ClassLine(nodeId, classOf(t.name))>>))
        ELSE <<>>
  IN  FlatMap(ObjectEntries(group), ofType)

\* line 768: value.match(/\$\{([^}]+)\}/g), each match without its ${ and }
\* (line 771): from left to right, a match starts at '${' and ends at the
\* first '}' after one character or more; the search goes on after it
Interpolations(q) ==
  LET closing(i) == {j \in (i + 2)..Len(q) : q[j] = "}"}
      first(i) == CHOOSE j \in closing(i) : \A k \in closing(i) : j <= k
      matches(i) ==
        /\ i + 1 <= Len(q) /\ q[i] = "$" /\ q[i + 1] = "{"
        /\ closing(i) # {} /\ first(i) >= i + 3
      go[i \in 1..(Len(q) + 1)] ==
        IF i > Len(q) THEN <<>>
        ELSE IF matches(i) THEN <<SubSeq(q, i + 2, first(i) - 1)>> \o go[first(i) + 1]
        ELSE go[i + 1]
  IN  go[1]

\* the test of line 774 with local left out
IsCrossResourceVarOnly(refType) == refType # Chars("var")

\* line 774: refType !== 'var' && refType !== 'local'
IsCrossResource(refType) == refType # Chars("var") /\ refType # Chars("local")

\* lines 765-784: the 'referenced by' edges of one attribute value
TfReferenceEdges(value, nodeId) ==
  LET edge(ref) ==
        LET dots == {i \in 1..Len(ref) : ref[i] = "."}
            d1 == CHOOSE i \in dots : \A j \in dots : i <= j
            later == {i \in dots : i > d1}
            d2 == IF later = {} THEN Len(ref) + 1
                  ELSE CHOOSE i \in later : \A j \in later : i <= j
            refType == SubSeq(ref, 1, d1 - 1)
            refName == SubSeq(ref, d1 + 1, d2 - 1)
        IN  IF dots # {} /\ IsCrossResource(refType)
            THEN <<EdgeLine(sanitizeNodeId(refType \o <<"_">> \o refName), "-.->",
                            "referenced by", nodeId)>>
            ELSE <<>>
  IN  IF value.t = "str" /\ IncludesChars(Chars(value.s), <<"$", "{">>)
      THEN FlatMap(Interpolations(Chars(value.s)), edge)
      ELSE <<>>

\* lines 740-790: for each resource with a config, the edges of its
\* depends_on, then those of the references in its attribute values
TfDependencyEdges(resources) ==
  LET ofInstance(resourceType, inst) ==
        LET nodeId == sanitizeNodeId(resourceType \o <<"_">> \o inst.name)
            depends_on == Get(inst.value, "depends_on")
            explicit(dep) ==
              IF dep.t = "str"
              THEN <<EdgeLine(sanitizeNodeId(MapSeq(Chars(dep.s),
                                 LAMBDA c : IF c = "." THEN "_" ELSE c)),
                              "-->", "depends on", nodeId)>>
              ELSE <<>>
        IN  IF Truthy(inst.value) /\ TypeofObject(inst.value)
            THEN (IF Truthy(depends_on) THEN FlatMap(AsArray(depends_on), explicit)
                  ELSE <<>>)
                 \o FlatMap(ObjectEntries(inst.value),
                            LAMBDA attr : TfReferenceEdges(attr.value, nodeId))
            ELSE <<>>
      ofType(t) ==
        IF TypeofObject(t.value) /\ Truthy(t.value)
        THEN FlatMap(ObjectEntries(t.value), LAMBDA inst : ofInstance(t.name, inst))
        ELSE <<>>
  IN  FlatMap(ObjectEntries(resources), ofType)

\* the block of lines 793-801 without its last class
TfClassDefsNoVariable ==
  ClassDefs(<<"network", "compute", "database", "loadbalancer", "storage", "datasource">>)

TfClassDefs ==
  ClassDefs(<<"network", "compute", "database", "loadbalancer", "storage",
              "datasource", "variable">>)

generateTerraformDiagram(parsedData) ==
  LET data == parsedData.data IN
  IF Nullish(data) THEN Raise("Cannot read properties of null (reading 'resource')")
  ELSE Return(
    [success |-> TRUE,
     mermaidCode |->
       <<HeaderLine("flowchart TD")>>
       \o (IF TfHas(data, "resource")
           THEN <<SubgraphLine("Resources", "Resources")>>
                \o TfInstanceNodes(Get(data, "resource"), <<>>, FALSE)
                \o <<EndLine>>
           ELSE <<>>)
       \o (IF TfHas(data, "data")
           THEN <<SubgraphLine("DataSources", "Data Sources")>>
                \o TfInstanceNodes(Get(data, "data"), Chars("data_"), TRUE)
                \o <<EndLine>>
           ELSE <<>>)
       \o (IF TfHas(data, "variable")
           THEN <<SubgraphLine("Variables", "Variables")>>
                \o FlatMap(ObjectEntries(Get(data, "variable")),
                     LAMBDA v :
                       LET nodeId == sanitizeNodeId(Chars("var_") \o v.name) IN
                       <<NodeLine(nodeId, sanitizeLabel(<<"<b>">> \o v.name \o <<"</b>">>)),
                         ClassLine(nodeId, "variable")>>)
                \o <<EndLine>>
           ELSE <<>>)
       \o (IF TfHas(data, "resource")
           THEN TfDependencyEdges(Get(data, "resource")) ELSE <<>>)
       \o <<TfClassDefs>>,
     diagramType |-> "flowchart"])

(***************************************************************************)
(* generateCloudFormationDiagram (lines 891-939)                            *)
(***************************************************************************)
\* the dependencies of a DependsOn that is read in its list form only
CfnDependenciesListOnly(DependsOn) ==
  IF DependsOn.t = "arr" THEN DependsOn.a ELSE <<>>

\* lines 909-912: a truthy DependsOn is a list or a single entry
CfnDependencies(DependsOn) ==
  IF Truthy(DependsOn) THEN AsArray(DependsOn) ELSE <<>>

generateCloudFormationDiagram(parsedData) ==
  LET data == parsedData.data IN
  IF Nullish(data) THEN Raise("Cannot read properties of null (reading 'Resources')")
  ELSE
  LET resources == ObjectEntries(OrElse(Get(data, "Resources"), EmptyObj))
      parameters == Get(data, "Parameters")
      node(e) ==
        IF Truthy(e.value) /\ TypeofObject(e.value)
        THEN LET nodeId == sanitizeNodeId(e.name)
                 resourceType == OrElse(Get(e.value, "Type"), S("Unknown"))
                 DependsOn == Get(e.value, "DependsOn")
             IN  <<NodeLine(nodeId,
                            sanitizeLabel(ToStr(resourceType) \o <<"<br/>", "[cloud] ">>
                                            \o e.name))>>
                 \o FlatMap(CfnDependencies(DependsOn),
                       LAMBDA dep :
                         IF dep.t = "str"
                         THEN <<EdgeLine(sanitizeNodeId(Chars(dep.s)), "-->", "", nodeId)>>
                         ELSE <<>>)
        ELSE <<>>
      param(e) ==
        <<NodeLine(sanitizeNodeId(Chars("param_") \o e.name),
                   sanitizeLabel(<<"Parameter", "<br/>", "[gear] ">> \o e.name))>>
  IN  Return(
        [success |-> TRUE,
         mermaidCode |->
           <<HeaderLine("graph TD")>>
           \o FlatMap(resources, node)
           \o (IF Truthy(parameters) /\ TypeofObject(parameters)
               THEN FlatMap(ObjectEntries(parameters), param) ELSE <<>>),
         diagramType |-> "graph"])

(***************************************************************************)
(* generateAzureARMDiagram (lines 941-980)                                  *)
(***************************************************************************)
\* the node id without the index of the entry
AzureNodeIdNoIndex(resourceType, name, index) ==
  sanitizeNodeId(resourceType \o <<"_">> \o name)

\* line 957: the id of the node of the index-th entry of resources
AzureNodeId(resourceType, name, index) ==
  sanitizeNodeId(resourceType \o <<"_">> \o name \o <<"_">> \o NumChars(index))

generateAzureARMDiagram(parsedData) ==
  LET data == parsedData.data IN
  IF Nullish(data) THEN Raise("Cannot read properties of null (reading 'resources')")
  ELSE
  LET resources == OrElse(Get(data, "resources"), A(<<>>))
      node(i) ==
        LET resource == resources.a[i] IN
        IF Truthy(resource) /\ TypeofObject(resource)
        THEN LET resourceType == OrElse(Get(resource, "type"), S("Unknown"))
                 name == IF Truthy(Get(resource, "name")) THEN ToStr(Get(resource, "name"))
                         ELSE Chars("resource_") \o NumChars(i - 1)
                 nodeId == AzureNodeId(ToStr(resourceType), name, i - 1)
                 dependsOn == Get(resource, "dependsOn")
             IN  <<NodeLine(nodeId, sanitizeLabel(ToStr(resourceType) \o <<"<br/>", "[azure] ">>
                                                  \o name))>>
                 \o (IF Truthy(dependsOn)
                     THEN FlatMap(AsArray(dependsOn),
                            LAMBDA dep :
                              IF dep.t = "str"
                              THEN <<EdgeLine(sanitizeNodeId(Chars(dep.s) \o Chars("_dep")),
                                              "-->", "", nodeId)>>
                              ELSE <<>>)
                     ELSE <<>>)
        ELSE <<>>
  IN  \* line 949: resources.forEach exists on an array only
      IF resources.t # "arr" THEN Raise("resources.forEach is not a function")
      ELSE Return(
        [success |-> TRUE,
         mermaidCode |->
           <<HeaderLine("flowchart TD")>>
           \o FlatMap([i \in 1..Len(resources.a) |-> i], node),
         diagramType |-> "flowchart"])

(***************************************************************************)
(* generateIBMCloudDiagram (lines 982-1112): the node of each resource and  *)
(* data source, and the accesses that raise.  The connections of lines      *)
(* 1016-1087 are left out: they add edge lines and raise on no value.       *)
(***************************************************************************)
\* lines 994-1003 and 1094-1097: an entry is read without a null check, and
\* type.includes is called on any truthy type
IbmEntryError(entry, callsIncludes) ==
  IF Nullish(entry) THEN "Cannot read properties of null (reading 'name')"
  ELSE IF callsIncludes /\ Truthy(Get(entry, "name")) /\ Truthy(Get(entry, "type"))
            /\ Get(entry, "type").t \notin {"str", "arr"}
       THEN "type.includes is not a function"
  ELSE ""

\* lines 998-1014 and 1097-1102; "[icon] " stands for the icon and the space
\* that start the label
IbmNodes(entries, idPrefix, typePrefix) ==
  FlatMap(entries,
    LAMBDA e :
      IF Truthy(Get(e, "name")) /\ Truthy(Get(e, "type"))
      THEN <<NodeLine(sanitizeNodeId(idPrefix \o ToStr(Get(e, "name"))),
                      sanitizeLabel(<<"[icon] ">> \o ToStr(Get(e, "name"))
                                      \o <<"<br/>", "<small>">>
                                      \o typePrefix \o ToStr(Get(e, "type")) \o <<"</small>">>))>>
      ELSE <<>>)

generateIBMCloudDiagram(parsedData) ==
  LET data == parsedData.data IN
  IF Nullish(data) THEN Raise("Cannot read properties of null (reading 'resources')")
  ELSE
  LET resources == IF Get(data, "resources").t = "arr" THEN Get(data, "resources").a ELSE <<>>
      dataSources == IF Get(data, "data_sources").t = "arr"
                     THEN Get(data, "data_sources").a ELSE <<>>
      errors == MapSeq(resources, LAMBDA e : IbmEntryError(e, TRUE))
                  \o MapSeq(dataSources, LAMBDA e : IbmEntryError(e, FALSE))
      failing == {i \in 1..Len(errors) : errors[i] # ""}
  IN  IF failing # {}
      THEN Raise(errors[CHOOSE i \in failing : \A j \in failing : i <= j])
      ELSE Return(
        [success |-> TRUE,
         mermaidCode |->
           <<HeaderLine("graph TD")>>
           \o IbmNodes(resources, <<>>, <<>>)
           \o IbmNodes(dataSources, Chars("data_"), <<"data.">>),
         diagramType |-> "graph"])

(***************************************************************************)
(* generateMermaidDiagram (lines 15-47)                                     *)
(***************************************************************************)
GenerationFailure(error) ==
  [success |-> FALSE, error |-> error, diagramType |-> "flowchart"]

\* the switch with the Compose generator as its default branch
DispatchDefaultCompose(parsedData) ==
  CASE parsedData.format = "kubernetes" -> generateKubernetesDiagram(parsedData)
    [] parsedData.format = "terraform" -> generateTerraformDiagram(parsedData)
    [] parsedData.format = "cloudformation" -> generateCloudFormationDiagram(parsedData)
    [] parsedData.format = "azure-arm" -> generateAzureARMDiagram(parsedData)
    [] parsedData.format = "ibm-cloud" -> generateIBMCloudDiagram(parsedData)
    [] OTHER -> generateDockerComposeDiagram(parsedData)

\* lines 19-38: the switch on parsedData.format
Dispatch(parsedData) ==
  CASE parsedData.format = "docker-compose" -> generateDockerComposeDiagram(parsedData)
    [] parsedData.format = "kubernetes" -> generateKubernetesDiagram(parsedData)
    [] parsedData.format = "terraform" -> generateTerraformDiagram(parsedData)
    [] parsedData.format = "cloudformation" -> generateCloudFormationDiagram(parsedData)
    [] parsedData.format = "azure-arm" -> generateAzureARMDiagram(parsedData)
    [] parsedData.format = "ibm-cloud" -> generateIBMCloudDiagram(parsedData)
    [] OTHER -> Return(GenerationFailure(<<"Unsupported format: ", parsedData.format>>))

\* generateMermaidDiagram without its catch: the exception is what returns
generateMermaidDiagramUncaught(parsedData) ==
  LET r == Dispatch(parsedData) IN
  IF Raised(r) THEN r ELSE r.value

\* lines 39-46: an exception of the walk becomes a failure result
generateMermaidDiagram(parsedData) ==
  LET r == Dispatch(parsedData) IN
  IF Raised(r) THEN GenerationFailure(<<"Failed to generate diagram: ", r.exception>>)
  ELSE r.value


(***************************************************************************)
(* The ParsedData values handed straight to generateMermaidDiagram, as the  *)
(* generator's test suite does: Compose trees with shorthand (null)         *)
(* network and volume entries, and trees of every format that hold a null   *)
(* or a wrongly-typed value where the walk assumes an object, an array or   *)
(* a string.                                                                *)
(***************************************************************************)
\* the configs a top-level network or volume entry may have
EntryConfigs(driver) == {Null, EmptyObj, O([driver |-> S(driver)])}

\* the maps from a subset of names to configs
ConfigMaps(names, configs) ==
  UNION {[sub -> configs] : sub \in SUBSET names}

ServiceSections ==
  { Undef,
    O([web |-> O([image |-> S("nginx")])]),
    O([web |-> O([image |-> S("nginx"),
                  networks |-> A(<<S("frontend")>>),
                  volumes |-> A(<<S("data:/var/lib")>>)]),
       api |-> O([build |-> S("."), depends_on |-> A(<<S("web")>>)])]),
    \* the services of the generator's test, the second dependency as a
    \* single name instead of a list
    O([web |-> O([image |-> S("nginx"), depends_on |-> A(<<S("api")>>)]),
       api |-> O([build |-> S("."), depends_on |-> S("database")]),
       database |-> O([image |-> S("postgres:13")])]),
    \* depends_on in its map form
    O([web |-> O([image |-> S("nginx"),
                  depends_on |-> O([database |->
                                      O([condition |-> S("service_healthy")])])]),
       database |-> O([image |-> S("postgres:13")])]),
    \* networks in its map form, and a second network in a list
    O([web |-> O([image |-> S("nginx"), networks |-> O([backend |-> Null])]),
       api |-> O([image |-> S("nginx"),
                  networks |-> A(<<S("frontend"), S("backend")>>)])]),
    O([web |-> Null]),
    O([web |-> O([image |-> N(123)])]) }

ComposeTree(services, networks, volumes) ==
  SetField(O([networks |-> O(networks), volumes |-> O(volumes)]), "services", services)

ComposeTrees ==
  {ComposeTree(sv, n, v) :
     sv \in ServiceSections,
     n \in ConfigMaps({"frontend", "backend"}, EntryConfigs("overlay")),
     v \in ConfigMaps({"data", "cache"}, EntryConfigs("nfs"))}

\* trees the walks of the other generators stumble on
MalformedTrees ==
  { Null,
    O([resources |-> A(<<Null>>)]),
    O([resources |-> A(<<O([name |-> S("vpc"), type |-> N(1)])>>)]),
    O([data_sources |-> A(<<Null>>)]),
    O([resources |-> O([vm |-> EmptyObj])]),
    O([kind |-> S("Deployment"),
       spec |-> O([template |-> O([spec |-> O([containers |-> A(<<Null>>)])])])]),
    O([kind |-> S("Service"), spec |-> O([ports |-> A(<<Null>>)])]),
    O([services |-> O([web |-> Null])]),
    O([services |-> O([web |-> O([image |-> N(123)])])]) }

\* attribute values of a Terraform resource: interpolations of another
\* resource, of a variable, of a local, of a data source, two in one string,
\* one without a dot, a bare reference, a number
ReferenceValues ==
  { S("${aws_vpc.main.id}"), S("${var.region}"), S("${local.tags}"),
    S("${var.region}-${aws_vpc.main.id}"), S("${data.aws_ami.ubuntu.id}"),
    S("${count}"), S("aws_vpc.main.id"), N(2) }

\* a VPC and a subnet with the given config
TerraformTree(subnet) ==
  O([resource |->
       O([aws_vpc |-> O([main |-> O([cidr_block |-> S("10.0.0.0/16")])]),
          aws_subnet |-> O([sub1 |-> subnet])])])

TerraformTrees ==
  {TerraformTree(O([vpc_id |-> a, az |-> b])) : a, b \in ReferenceValues}
    \cup {TerraformTree(O([depends_on |-> d])) :
            d \in {A(<<S("aws_vpc.main")>>), S("aws_vpc.main"), A(<<N(1)>>)}}

\* the ParsedData of the test 'should generate Kubernetes diagram'
WebAppCall ==
  [format |-> "kubernetes",
   data |-> O([apiVersion |-> S("apps/v1"), kind |-> S("Deployment"),
               metadata |-> O([name |-> S("web-app"), namespace |-> S("production")])])]

\* a Compose tree whose one service publishes n ports
PortsTree(n) ==
  O([services |->
       O([web |-> O([image |-> S("nginx"),
                     ports |-> A([i \in 1..n |-> S("80:80")])])])])

\* a resource of the given kind, name and namespace, with the given spec
K8sNamespaced(kind, name, namespace, spec) ==
  O([apiVersion |-> S("v1"), kind |-> S(kind),
     metadata |-> O([name |-> S(name), namespace |-> S(namespace)]),
     spec |-> spec])

\* the resources of a pass: Services with a selector, with an empty one and
\* without one, workloads of two namespaces, an Ingress; one Service has no
\* metadata
PassResources ==
  { SelectingService,
    K8sNamespaced("Service", "api", "prod", O([selector |-> O([app |-> S("api")])])),
    K8sNamespaced("Service", "web", "prod", O([selector |-> EmptyObj])),
    K8sResource("Service", "nginx-service"),
    K8sResource("Deployment", "nginx-deployment"),
    K8sNamespaced("Deployment", "api", "prod", EmptyObj),
    K8sNamespaced("StatefulSet", "db", "prod", EmptyObj),
    K8sResource("Ingress", "nginx-ingress") }

\* a multi-document ParsedData of one to MaxDocs resources
KubernetesPasses ==
  {[format |-> "kubernetes", data |-> q[1], multiDocument |-> TRUE, documents |-> q] :
     q \in SeqsUpTo(PassResources, MaxDocs) \ {<<>>}}

\* entries of an ARM resources array: two of the same type and name, one
\* that depends on a name that reads like a node id, one with a name twice
\* and a number in its list, one without type and name, a null
ArmResources ==
  { O([type |-> S("vm"), name |-> S("web")]),
    O([type |-> S("vm"), name |-> S("web"), dependsOn |-> S("vm_web_0")]),
    O([type |-> S("net"), name |-> S("web"),
       dependsOn |-> A(<<S("web"), N(1), S("web")>>)]),
    O([dependsOn |-> A(<<S("vm_web_0"), S("net")>>)]),
    Null }

ArmTrees ==
  {O([resources |-> A(q)]) : q \in SeqsUpTo(ArmResources, MaxDocs)}

\* a CloudFormation resource with the given DependsOn
CfnResource(DependsOn) ==
  SetField(O([Type |-> S("AWS::EC2::Instance")]), "DependsOn", DependsOn)

\* the values of a Resources entry: resources without DependsOn, with one
\* as a string, as a list, as a list with a number and a name twice, as the
\* empty string, and entries that are no objects
CfnEntries ==
  {CfnResource(d) : d \in {Undef, S("Db"), A(<<S("Db"), S("Queue")>>),
                           A(<<S("Db"), N(1), S("Db")>>), S("")}}
    \cup {S("x"), Null}

CfnTrees ==
  {SetField(O([Resources |-> O(r)]), "Parameters", p) :
     r \in ConfigMaps({"Web", "Db"}, CfnEntries),
     p \in {Undef, S("x"), O([Env |-> EmptyObj]),
            O([Env |-> EmptyObj, Size |-> O([Type |-> S("String")])])}}

DirectCalls ==
  {[format |-> "docker-compose", data |-> d] : d \in ComposeTrees}
    \cup {[format |-> "cloudformation", data |-> d] : d \in CfnTrees}
    \cup {[format |-> "azure-arm", data |-> d] : d \in ArmTrees}
    \cup KubernetesPasses
    \cup {[format |-> "docker-compose", data |-> PortsTree(n)] : n \in 0..MaxPorts}
    \cup {WebAppCall}
    \cup {[format |-> "terraform", data |-> d] : d \in TerraformTrees}
    \cup {[format |-> f, data |-> d] :
            f \in FormatLabels \cup {"invalid-format"},
            d \in BaseDocs \cup MalformedTrees}
    \cup {[format |-> "kubernetes", data |-> q[1], multiDocument |-> TRUE, documents |-> q] :
            q \in {<<K8sResource("Service", "nginx-service") ,
                     K8sResource("Deployment", "nginx-deployment")>>,
                   <<K8sResource("Deployment", "nginx-deployment"), Null>>}}

(***************************************************************************)
(* The program: the editor's text is set, detectFormat is called on it      *)
(* (YamlEditor), then parseContent and, if that succeeds,                   *)
(* generateMermaidDiagram on its data (processContent of main.tsx).  The    *)
(* calls are those of the library: the test suites make them on the empty   *)
(* text too, which the components short-cut.  The generator is also called  *)
(* on a ParsedData directly.                                                *)
(***************************************************************************)
NoResult == [none |-> TRUE]

EmptyText == Text("yaml", TRUE, <<>>, FALSE, FALSE, "other", NoBlocks)

(***************************************************************************)
(* DiagramViewer (part_005): zoom, pan and pan mode.  zoom is a double: it  *)
(* is kept in tenths, with the sign of what the double is off the double    *)
(* nearest to that many tenths (0 for that double itself).  A sum that is   *)
(* not a literal may round to either side.                                  *)
(***************************************************************************)
\* the literals of lines 226, 274 and 279, in tenths
MinZoom == 1

MaxZoom == 50

ZoomStep == 2

WheelStep == 1

\* useState(1), line 23, in tenths
InitialZoom == 10

\* the double nearest to the given number of tenths
Double(tenths) == [tenths |-> tenths, off |-> 0]

\* a < b and a <= b on doubles
ZoomLess(a, b) == a.tenths < b.tenths \/ (a.tenths = b.tenths /\ a.off < b.off)

ZoomLeq(a, b) == a = b \/ ZoomLess(a, b)

\* zoom + delta: the sum, rounded
ZoomPlus(z, delta) == {[tenths |-> z.tenths + delta, off |-> o] : o \in {-1, 0, 1}}

MathMax(a, b) == IF ZoomLess(a, b) THEN b ELSE a

MathMin(a, b) == IF ZoomLess(b, a) THEN b ELSE a

\* zoom - 0.2 without the lower limit
handleZoomOutUnclamped(z) == ZoomPlus(z, 0 - ZoomStep)

\* line 279: Math.max(zoom - 0.2, 0.1)
handleZoomOut(z) == {MathMax(v, Double(MinZoom)) : v \in ZoomPlus(z, 0 - ZoomStep)}

\* line 274: Math.min(zoom + 0.2, 5)
handleZoomIn(z) == {MathMin(v, Double(MaxZoom)) : v \in ZoomPlus(z, ZoomStep)}

\* lines 225-226: delta is -0.1 for deltaY > 0 and 0.1 otherwise
handleWheel(z, deltaYPositive) ==
  {MathMax(Double(MinZoom), MathMin(Double(MaxZoom), v)) :
     v \in ZoomPlus(z, IF deltaYPositive THEN 0 - WheelStep ELSE WheelStep)}

\* lines 392 and 428: disabled={zoom <= 0.1}, disabled={zoom >= 5}
ZoomOutDisabled == ZoomLeq(zoom, Double(MinZoom))

ZoomInDisabled == ZoomLeq(Double(MaxZoom), zoom)

\* the pan offsets of the model
PanValues == (0 - MaxPan)..MaxPan

Origin == [x |-> 0, y |-> 0]

\* the control clicked last, and how many times in a row, counted up to the
\* number of steps between the limits
ClicksToLimit == (MaxZoom - MinZoom + ZoomStep - 1) \div ZoomStep

NoClick == [control |-> "none", count |-> 0]

Clicked(control) ==
  [control |-> control,
   count |-> IF clicks.control = control
             THEN (IF clicks.count < ClicksToLimit THEN clicks.count + 1 ELSE ClicksToLimit)
             ELSE 1]

\* lines 23-25, and the mouse state of lines 184-186
InitViewer ==
  /\ zoom = Double(InitialZoom)
  /\ pan = Origin
  /\ panMode = FALSE
  /\ isMouseDown = FALSE
  /\ attached = FALSE
  /\ clicks = NoClick

(***************************************************************************)
(* App (main.tsx): the content of the editor, the timers that               *)
(* handleContentChange has started, and what processContent has set.        *)
(***************************************************************************)
\* lines 90-96: nothing to show
Cleared == [mermaidCode |-> <<>>, parsedData |-> Null, error |-> Null]

\* lines 111-131: the state after generateMermaidDiagram has returned
ShowDiagram(result, diagramResult) ==
  IF ~diagramResult.success
  THEN [mermaidCode |-> <<>>, parsedData |-> result.data, error |-> diagramResult.error]
  ELSE [mermaidCode |-> diagramResult.mermaidCode, parsedData |-> result.data,
        error |-> Null]

\* lines 89-131: the state processContent leaves, given the result of
\* parseContent; generateMermaidDiagram is called once
ProcessParsed(text, result) ==
  IF text = EmptyText THEN Cleared
  ELSE IF ~result.success
  THEN [mermaidCode |-> <<>>, parsedData |-> Null, error |-> result.error]
  ELSE CHOOSE state \in {ShowDiagram(result, diagramResult) :
                           diagramResult \in {generateMermaidDiagram(result.data)}} : TRUE

\* lines 88-141: the state processContent leaves for a content; parseContent
\* is called once
processContent(text) ==
  CHOOSE state \in {ProcessParsed(text, result) : result \in {parseContent(text)}} : TRUE

\* the texts of the editor, of the uploaded files and of the examples: none,
\* '{}', a Compose file and a Deployment
AppTexts ==
  {EmptyText}
    \cup {Text("json", TRUE, <<d>>, FALSE, FALSE, "brace", NoBlocks) :
            d \in {EmptyObj, ComposeDoc, K8sDoc}}

\* the examples of the application
ExampleTexts ==
  {Text("json", TRUE, <<d>>, FALSE, FALSE, "brace", NoBlocks) : d \in {ComposeDoc, K8sDoc}}

\* lines 50-59
InitApp ==
  /\ yamlContent = EmptyText
  /\ timers = <<>>
  /\ app = Cleared

Init ==
  /\ content = EmptyText
  /\ call = NoResult
  /\ pc = "idle"
  /\ detected = "none"
  /\ parseResult = NoResult
  /\ diagram = NoResult
  /\ rawId = <<>>
  /\ safeId = <<>>
  /\ prototype = <<>>
  /\ runs = <<>>
  /\ InitViewer
  /\ InitApp

\* handleContentChange / handleFileUpload: setYamlContent(content)
SetYamlContent ==
  /\ pc = "idle"
  /\ \E text \in Texts : content' = text
  /\ pc' = "edited"
  /\ UNCHANGED <<call, detected, parseResult, diagram, rawId, safeId, prototype, runs,
               viewerVars, appVars>>

\* YamlEditor: detectFormat(content)
DetectFormat ==
  /\ pc = "edited"
  /\ detected' = detectFormat(content)
  /\ pc' = "detected"
  /\ UNCHANGED <<content, call, parseResult, diagram, rawId, safeId, prototype, runs,
               viewerVars, appVars>>

\* processContent: parseContent(content)
ParseContent ==
  /\ pc = "detected"
  /\ parseResult' = parseContent(content)
  /\ pc' = "parsed"
  /\ prototype' = Pollution(content) @@ prototype
  /\ UNCHANGED <<content, call, detected, diagram, rawId, safeId, runs,
               viewerVars, appVars>>

\* processContent: generateMermaidDiagram(parseResult.data), after a
\* successful parse only
GenerateMermaidDiagram ==
  /\ pc = "parsed"
  /\ parseResult.success
  /\ call' = parseResult.data
  /\ diagram' = generateMermaidDiagram(parseResult.data)
  /\ pc' = "generated"
  /\ UNCHANGED <<content, detected, parseResult, rawId, safeId, prototype, runs,
               viewerVars, appVars>>

\* generateMermaidDiagram(parsedData) on a ParsedData of the caller's making
GenerateFromData ==
  /\ pc = "idle"
  /\ \E parsedData \in DirectCalls :
       /\ call' = parsedData
       /\ diagram' = generateMermaidDiagram(parsedData)
  /\ pc' = "called"
  /\ UNCHANGED <<content, detected, parseResult, rawId, safeId, prototype, runs,
               viewerVars, appVars>>

Next ==
  \/ SetYamlContent
  \/ DetectFormat
  \/ ParseContent
  \/ GenerateMermaidDiagram
  \/ GenerateFromData

Spec == Init /\ [][Next]_vars

(***************************************************************************)
(* A session: the text is edited again after a run of the pipeline, at      *)
(* most MaxRuns times (handleContentChange of main.tsx, then processContent *)
(* once more).  runs keeps the text and the outcome of each run that ended. *)
(***************************************************************************)
\* a block of type "__proto__" named Resources, with an empty body
PollutingRes == [type |-> "__proto__", name |-> "Resources", attrs |-> <<>>, tags |-> <<>>]

\* the texts of a session: '{}', a Compose file and a Deployment as JSON,
\* and two native HCL texts
RunTexts ==
  {Text("json", TRUE, <<d>>, FALSE, FALSE, "brace", NoBlocks) :
     d \in {EmptyObj, ComposeDoc, K8sDoc}}
    \cup {Text("broken", FALSE, <<>>, FALSE, TRUE, "other",
                [NoBlocks EXCEPT !.resource = r]) :
            r \in {<<WebInstance>>, <<PollutingRes>>}}

\* processContent has returned: the parse failed, or the generator was called
RunDone == pc = "generated" \/ (pc = "parsed" /\ ~parseResult.success)

\* what a run shows: the success flag, the markup and the diagram type
Outcome ==
  IF parseResult.success /\ diagram.success
  THEN [success |-> TRUE, mermaidCode |-> diagram.mermaidCode,
        diagramType |-> diagram.diagramType]
  ELSE [success |-> FALSE]

\* handleContentChange, at the start of a session or after a run
SetRunContent ==
  /\ pc = "idle" \/ RunDone
  /\ Len(runs) + (IF pc = "idle" THEN 0 ELSE 1) < MaxRuns
  /\ \E text \in RunTexts : content' = text
  /\ runs' = IF pc = "idle" THEN runs
             ELSE Append(runs, [text |-> content, outcome |-> Outcome])
  /\ pc' = "edited"
  /\ UNCHANGED <<call, detected, parseResult, diagram, rawId, safeId, prototype,
               viewerVars, appVars>>

NextRuns ==
  \/ SetRunContent
  \/ DetectFormat
  \/ ParseContent
  \/ GenerateMermaidDiagram

SpecRuns == Init /\ [][NextRuns]_vars

(***************************************************************************)
(* sanitizeNodeId on its own: a string of at most MaxIdLen characters, a    *)
(* letter of either case, a digit, the two characters it keeps and two it   *)
(* replaces, is given to it.                                                *)
(***************************************************************************)
IdChars == {"a", "Z", "1", "_", "-", ".", " "}

Ids == SeqsUpTo(IdChars, MaxIdLen)

InitSanitize ==
  /\ content = EmptyText
  /\ call = NoResult
  /\ pc = "idle"
  /\ detected = "none"
  /\ parseResult = NoResult
  /\ diagram = NoResult
  /\ rawId \in Ids
  /\ safeId = <<>>
  /\ prototype = <<>>
  /\ runs = <<>>
  /\ InitViewer
  /\ InitApp

\* sanitizeNodeId(id)
SanitizeNodeId ==
  /\ pc = "idle"
  /\ safeId' = sanitizeNodeId(rawId)
  /\ pc' = "sanitized"
  /\ UNCHANGED <<content, call, detected, parseResult, diagram, rawId, prototype, runs,
               viewerVars, appVars>>

NextSanitize == SanitizeNodeId

SpecSanitize == InitSanitize /\ [][NextSanitize]_vars

(***************************************************************************)
(* DiagramViewer: the controls, the wheel and the mouse.  A change of zoom, *)
(* pan or panMode runs the effect of lines 114-271 again: it empties the    *)
(* container at once and attaches the listeners of the new wrapper when     *)
(* mermaid.render has resolved.                                             *)
(***************************************************************************)
pipelineVars ==
  <<content, call, pc, detected, parseResult, diagram, rawId, safeId, prototype, runs>>

\* lines 273-276, behind disabled={zoom >= 5}
ZoomIn ==
  /\ ~ZoomInDisabled
  /\ zoom' \in handleZoomIn(zoom)
  /\ clicks' = Clicked("in")
  /\ attached' = FALSE
  /\ UNCHANGED <<pan, panMode, isMouseDown, pipelineVars, appVars>>

\* lines 278-281, behind disabled={zoom <= 0.1}
ZoomOut ==
  /\ ~ZoomOutDisabled
  /\ zoom' \in handleZoomOut(zoom)
  /\ clicks' = Clicked("out")
  /\ attached' = FALSE
  /\ UNCHANGED <<pan, panMode, isMouseDown, pipelineVars, appVars>>

\* lines 283-286
ZoomReset ==
  /\ zoom' = Double(InitialZoom)
  /\ pan' = Origin
  /\ clicks' = Clicked("reset")
  /\ attached' = FALSE
  /\ UNCHANGED <<panMode, isMouseDown, pipelineVars, appVars>>

\* lines 222-232: the listener of the wrapper that is in the container
Wheel ==
  /\ attached
  /\ \E deltaYPositive \in BOOLEAN : zoom' \in handleWheel(zoom, deltaYPositive)
  /\ clicks' = NoClick
  /\ attached' = FALSE
  /\ UNCHANGED <<pan, panMode, isMouseDown, pipelineVars, appVars>>

\* lines 288-293
TogglePanMode ==
  /\ panMode' = ~panMode
  /\ pan' = IF panMode THEN Origin ELSE pan
  /\ clicks' = NoClick
  /\ attached' = FALSE
  /\ UNCHANGED <<zoom, isMouseDown, pipelineVars, appVars>>

\* lines 188-197: the listener of the wrapper, which closes over panMode
MouseDown ==
  /\ attached /\ panMode
  /\ isMouseDown' = TRUE
  /\ clicks' = NoClick
  /\ UNCHANGED <<zoom, pan, panMode, attached, pipelineVars, appVars>>

\* lines 199-212: a listener of the document, which stays when the wrapper
\* is replaced; startPan plus any delta is any pan
MouseMove ==
  /\ isMouseDown
  /\ \E x, y \in PanValues : pan' = [x |-> x, y |-> y]
  /\ clicks' = NoClick
  /\ attached' = FALSE
  /\ UNCHANGED <<zoom, panMode, isMouseDown, pipelineVars, appVars>>

\* lines 214-220
MouseUp ==
  /\ isMouseDown
  /\ isMouseDown' = FALSE
  /\ UNCHANGED <<zoom, pan, panMode, attached, clicks, pipelineVars, appVars>>

\* lines 163-239: mermaid.render has resolved, addEventListeners()
RenderDiagram ==
  /\ ~attached
  /\ attached' = TRUE
  /\ UNCHANGED <<zoom, pan, panMode, isMouseDown, clicks, pipelineVars, appVars>>

NextViewer ==
  \/ ZoomIn
  \/ ZoomOut
  \/ ZoomReset
  \/ Wheel
  \/ TogglePanMode
  \/ MouseDown
  \/ MouseMove
  \/ MouseUp
  \/ RenderDiagram

SpecViewer == Init /\ [][NextViewer]_vars

(***************************************************************************)
(* App: handleContentChange starts a timer of 500 ms and drops the function *)
(* that would clear it; handleFileUpload and handleExampleLoad call         *)
(* processContent at once.  Timers of one delay fire in the order they were *)
(* started; at most MaxTimers are pending.                                  *)
(***************************************************************************)
\* lines 153-164
HandleContentChange ==
  /\ Len(timers) < MaxTimers
  /\ \E text \in AppTexts :
       /\ yamlContent' = text
       /\ timers' = Append(timers, text)
  /\ UNCHANGED <<app, pipelineVars, viewerVars>>

\* lines 157-159: the callback of the oldest timer calls processContent
\* with the text it closed over
TimerFires(text) ==
  /\ timers # <<>>
  /\ text = Head(timers)
  /\ timers' = Tail(timers)
  /\ UNCHANGED yamlContent

\* lines 144-150: setYamlContent(content), then processContent
HandleFileUpload(text) ==
  /\ text # EmptyText
  /\ yamlContent' = text
  /\ UNCHANGED timers

\* lines 166-174: setYamlContent(content), then processContent
HandleExampleLoad(text) ==
  /\ text \in ExampleTexts
  /\ yamlContent' = text
  /\ UNCHANGED timers

\* lines 88-141, called by the timer, the upload or the example load
ProcessContent(text) ==
  /\ app' = processContent(text)
  /\ prototype' = Pollution(text) @@ prototype
  /\ UNCHANGED <<content, call, pc, detected, parseResult, diagram, rawId, safeId, runs,
                 viewerVars>>

NextApp ==
  \/ HandleContentChange
  \/ \E text \in AppTexts :
       /\ TimerFires(text) \/ HandleFileUpload(text) \/ HandleExampleLoad(text)
       /\ ProcessContent(text)

SpecApp == Init /\ [][NextApp]_vars


(***************************************************************************)
(* Properties.                                                              *)
(***************************************************************************)
\* the states in which detectFormat, parseContent, generateMermaidDiagram
\* have returned
Detected == pc \in {"detected", "parsed", "generated"}
Parsed == pc \in {"parsed", "generated"}
Generated == pc \in {"generated", "called"}

\* the documents of a text that are not empty, in source order
NonNull(docs) == SelectSeq(docs, LAMBDA d : d # Null)

\* the object the field cascade of detectFormat looks at, if the text gets
\* that far: the JSON value, else the first non-null YAML document
CascadeInput ==
  IF content.hcl THEN NoResult
  ELSE IF content.syntax = "json" THEN [data |-> content.docs[1], isJson |-> TRUE]
  ELSE IF ~content.yamlOk \/ NonNull(content.docs) = <<>> THEN NoResult
  ELSE [data |-> NonNull(content.docs)[1], isJson |-> FALSE]

ReachesCascade ==
  /\ CascadeInput # NoResult
  /\ CascadeInput.data.t \in {"arr", "obj"}

\* the order of the cascade, and the condition of each of its formats
CascadeOrder ==
  <<"azure-arm", "cloudformation", "kubernetes", "docker-compose", "terraform",
    "ibm-cloud">>

Satisfies(label, data, isJson) ==
  CASE label = "azure-arm" -> IsAzureArm(data, isJson)
    [] label = "cloudformation" -> IsCloudFormation(data)
    [] label = "kubernetes" -> IsKubernetes(data)
    [] label = "docker-compose" -> IsDockerCompose(data)
    [] label = "terraform" -> IsTerraformKeys(data)
    [] label = "ibm-cloud" -> IsIbmCloud(data)

Satisfied ==
  {i \in 1..Len(CascadeOrder) :
     Satisfies(CascadeOrder[i], CascadeInput.data, CascadeInput.isJson)}

\* C1: detectFormat resolves ambiguity first match first: a text that matches
\* the HCL heuristic is terraform; otherwise the label of a parsed object is
\* the earliest format of the cascade order whose condition it satisfies, and
\* unknown if it satisfies none; azure-arm is returned for valid JSON only.
C1_FirstMatchWins ==
  Detected =>
    /\ content.hcl => detected = "terraform"
    /\ ReachesCascade =>
         IF Satisfied = {} THEN detected = "unknown"
         ELSE detected = CascadeOrder[CHOOSE i \in Satisfied : \A j \in Satisfied : i <= j]
    /\ detected = "azure-arm" => content.syntax = "json"

\* a parsed object with Resources, apiVersion and kind is labelled
\* cloudformation, and one with version, services and resource docker-compose
C1_Witness ==
  /\ Detected /\ ReachesCascade
  /\ \/ /\ {2, 3} \subseteq Satisfied
        /\ detected = "cloudformation"
     \/ /\ {4, 5} \subseteq Satisfied /\ 2 \notin Satisfied /\ 3 \notin Satisfied
        /\ detected = "docker-compose"


\* the minimal documents of the test suites, as YAML, JSON or native HCL
YamlOf(doc) == Text("yaml", TRUE, <<doc>>, FALSE, FALSE, "other", NoBlocks)
JsonOf(doc) == Text("json", TRUE, <<doc>>, FALSE, FALSE, "brace", NoBlocks)

CanonicalTexts(label) ==
  CASE label = "docker-compose" -> {YamlOf(ComposeDoc), JsonOf(ComposeDoc)}
    [] label = "kubernetes" -> {YamlOf(K8sDoc), JsonOf(K8sDoc)}
    [] label = "terraform" ->
         {Text("broken", FALSE, <<>>, FALSE, TRUE, "other",
               [NoBlocks EXCEPT !.resource = <<WebInstance>>]),
          JsonOf(TfJsonDoc)}
    [] label = "cloudformation" -> {YamlOf(CfnDoc), JsonOf(CfnDoc)}
    [] label = "azure-arm" -> {JsonOf(ArmDoc)}
    [] label = "ibm-cloud" -> {JsonOf(IbmDoc), YamlOf(IbmDoc)}

KnownFormats == FormatLabels \ {"unknown"}

\* C2: the minimal canonical document of each of the six formats is
\* classified as that format, and the empty or whitespace-only text as
\* unknown.
C2_CanonicalDocuments ==
  Detected =>
    /\ \A label \in KnownFormats : content \in CanonicalTexts(label) => detected = label
    /\ content \in BlankTexts => detected = "unknown"

C2_Witness ==
  /\ Detected
  /\ content = YamlOf(ComposeDoc)
  /\ detected = "docker-compose"

\* C3: detectFormat is total: it returns one of the seven labels for every
\* text; a text that neither JSON.parse nor js-yaml accepts, a text with
\* separators whose documents are all empty, and every exception raised
\* inside give unknown.
C3_DetectFormatTotal ==
  Detected =>
    /\ detected \in FormatLabels
    /\ (~content.hcl /\ content.syntax # "json" /\ ~content.yamlOk) => detected = "unknown"
    /\ (~content.hcl /\ content.syntax # "json" /\ NonNull(content.docs) = <<>>)
         => detected = "unknown"
    /\ Raised(DetectBody(content)) => detected = "unknown"

\* a text with separators and two or more documents, all of them empty
C3_Witness ==
  /\ Detected
  /\ content.sep /\ ~content.hcl
  /\ Len(content.docs) >= 2 /\ NonNull(content.docs) = <<>>
  /\ detected = "unknown"

\* C4: no generator runs on an unclassified document.  When detectFormat
\* gives unknown, parseContent fails with 'Unable to detect supported
\* format...' and returns no ParsedData; a successful parse result has one of
\* the six formats; generateMermaidDiagram on the format unknown or on a
\* label it does not know fails with 'Unsupported format'.
C4_NoGeneratorOnUnknown ==
  /\ (Parsed /\ detected = "unknown") =>
       /\ parseResult.success = FALSE
       /\ parseResult.error[1] = "Unable to detect supported format"
       /\ "data" \notin DOMAIN parseResult
  /\ (Parsed /\ parseResult.success) => parseResult.data.format \in KnownFormats
  /\ pc = "generated" => call.format \in KnownFormats
  /\ (Generated /\ call.format \notin KnownFormats) =>
       /\ diagram.success = FALSE
       /\ diagram.error[1] = "Unsupported format: "

\* arbitrary prose: classified unknown, and refused by parseContent
C4_Witness ==
  /\ Parsed
  /\ content.docs = <<S("just some prose")>>
  /\ detected = "unknown"
  /\ parseResult.success = FALSE


\* the messages of the JSON and YAML parsers
ParserMessages == {JsonSyntaxError, YamlSyntaxError, YamlStreamError}

\* whether a message of the parsers is a piece of the error of a result
CarriesParserMessage(result) ==
  /\ "error" \in DOMAIN result
  /\ \E i \in 1..Len(result.error) : result.error[i] \in ParserMessages
  /\ "validationErrors" \in DOMAIN result
  /\ \E i \in 1..Len(result.validationErrors) :
       /\ result.validationErrors[i].type = "error"
       /\ result.validationErrors[i].message \in ParserMessages

\* C5: for every text that neither JSON.parse nor js-yaml accepts, the
\* failure result of parseContent carries the parser's message, in error
\* and as an error-severity validation issue.
C5_SyntaxErrorMessageCarried ==
  (Parsed /\ content.syntax = "broken" /\ ~content.yamlOk /\ ~parseResult.success)
    => CarriesParserMessage(parseResult)

\* the text of the test suite (JSON with a missing comma) ends in the
\* generic failure of lines 286-292, which carries no parser message
C5_GenericFailureReached ==
  /\ Parsed
  /\ content.syntax = "broken" /\ content.lead = "brace" /\ ~content.hcl
  /\ parseResult = DetectFailure

\* C6: parseContent is total: it returns a result with a success flag for
\* every text; a failure has a defined, non-empty error, a success has data.
C6_ParseContentTotal ==
  Parsed =>
    /\ ~Raised(parseResult)
    /\ "success" \in DOMAIN parseResult
    /\ parseResult.success \in BOOLEAN
    /\ ~parseResult.success =>
         /\ "error" \in DOMAIN parseResult
         /\ parseResult.error # <<>>
         /\ \A i \in 1..Len(parseResult.error) : parseResult.error[i] # ""
    /\ parseResult.success => "data" \in DOMAIN parseResult

\* malformed JSON (an object with a missing comma): a failure with an error
C6_Witness ==
  /\ Parsed
  /\ content.syntax = "broken" /\ content.lead = "brace"
  /\ ~parseResult.success
  /\ Len(parseResult.error) > 0

\* the value parseContent validates, for a classified text that parses
ParsedValue == ParseStep(content, detected).value.parsed

ClassifiedAndParseable ==
  /\ detected \in KnownFormats
  /\ ~Raised(ParseStep(content, detected))

ErrorIssues(issues) == {i \in 1..Len(issues) : issues[i].type = "error"}

\* C7: validation errors block, warnings do not.  isValid is false exactly
\* when an error-severity issue was collected; for a classified text that
\* parses, parseContent succeeds exactly when there is no error-severity
\* issue, and then returns the parsed value and, if there are any, the
\* warnings in validationErrors.
C7_ErrorsBlockWarningsDoNot ==
  (Parsed /\ ClassifiedAndParseable) =>
    LET validation == validateContent(ParsedValue, detected) IN
    /\ validation.isValid = (ErrorIssues(validation.errors) = {})
    /\ parseResult.success = (ErrorIssues(validation.errors) = {})
    /\ (ErrorIssues(validation.errors) = {} /\ validation.errors # <<>>) =>
         /\ parseResult.success
         /\ parseResult.data.data = ParsedValue
         /\ "validationErrors" \in DOMAIN parseResult
         /\ parseResult.validationErrors = validation.errors

\* a successful parse that returns warnings, and warnings only
C7_Witness ==
  /\ Parsed
  /\ parseResult.success
  /\ "validationErrors" \in DOMAIN parseResult
  /\ Len(parseResult.validationErrors) > 0
  /\ ErrorIssues(parseResult.validationErrors) = {}

\* C8: generateMermaidDiagram never propagates an exception: it returns a
\* result for every ParsedData, and if the walk of the tree raises, the
\* result has success false and a non-empty error.
C8_NoExceptionEscapes ==
  Generated =>
    /\ ~Raised(diagram)
    /\ "success" \in DOMAIN diagram
    /\ Raised(Dispatch(call)) =>
         /\ diagram.success = FALSE
         /\ "error" \in DOMAIN diagram
         /\ diagram.error # <<>>
         /\ \A i \in 1..Len(diagram.error) : diagram.error[i] # ""

\* a null entry in an IBM resources array: the walk raises, a failure returns
C8_Witness ==
  /\ pc = "called"
  /\ call.format = "ibm-cloud"
  /\ call.data = O([resources |-> A(<<Null>>)])
  /\ Raised(Dispatch(call))
  /\ diagram.success = FALSE


\* a Compose tree handed to the generator
ComposeCall ==
  /\ Generated
  /\ call.format = "docker-compose"
  /\ call.data.t = "obj"

\* the names whose entry in the top-level section is null
NullEntries(section) ==
  {k \in Keys(Get(call.data, section)) : Get(call.data, section).o[k] = Null}

\* what a label shows after 'Driver: '
DriverShown(label) ==
  LET at == CHOOSE i \in 1..Len(label) : label[i] = "Driver: "
  IN  SubSeq(label, at + 1, Len(label))

\* the node of the markup with the given id shows the given driver
ShowsDriver(id, driver) ==
  \E i \in 1..Len(diagram.mermaidCode) :
    LET line == diagram.mermaidCode[i] IN
    /\ line.kind = "node"
    /\ line.id = id
    /\ DriverShown(line.label) = driver

NullEntriesGetDefaults ==
  /\ diagram.success
  /\ \A k \in NullEntries("networks") :
       ShowsDriver(Chars("network_") \o Chars(k), Chars("bridge"))
  /\ \A k \in NullEntries("volumes") :
       ShowsDriver(Chars("volume_") \o Chars(k), Chars("local"))

\* every service config is an object whose image is absent, a string or a list
ServicesWellFormed ==
  LET services == OrElse(Get(call.data, "services"), EmptyObj) IN
  \A k \in Keys(services) :
    /\ services.o[k].t = "obj"
    /\ Get(services.o[k], "image").t \in {"undef", "str", "arr"}

DocumentsOf(result) ==
  IF "documents" \in DOMAIN result.data THEN result.data.documents ELSE <<>>

MultiDocumentSet(result) ==
  "multiDocument" \in DOMAIN result.data /\ result.data.multiDocument

PrimaryIsFirstDocument ==
  MultiDocumentSet(parseResult) => parseResult.data.data = DocumentsOf(parseResult)[1]

\* C10 as stated, for the texts that only js-yaml reads: for a text with
\* separators the documents of the result are the non-null documents of the
\* source in order, and data is the first of them when multiDocument is set.
C10_DocumentsOfAnyStream ==
  (Parsed /\ parseResult.success /\ content.sep
     /\ content.syntax = "yaml" /\ ~content.hcl) =>
    /\ DocumentsOf(parseResult) = NonNull(content.docs)
    /\ PrimaryIsFirstDocument

\* C10: for a text with separators that is read as YAML and holds two or
\* more non-null documents, the documents of the result are exactly the
\* non-null documents of the source in order; with fewer the result has no
\* documents list; whenever multiDocument is set, data is the first element
\* of documents.
C10_MultiDocument ==
  (Parsed /\ parseResult.success) =>
    /\ (content.sep /\ ~TakesHclPath(content, detected)
          /\ Len(NonNull(content.docs)) >= 2) =>
         /\ MultiDocumentSet(parseResult)
         /\ DocumentsOf(parseResult) = NonNull(content.docs)
    /\ (content.sep /\ Len(NonNull(content.docs)) < 2) =>
         /\ ~MultiDocumentSet(parseResult)
         /\ "documents" \notin DOMAIN parseResult.data
    /\ PrimaryIsFirstDocument

\* Deployment, an empty document, Service: two documents are kept
C10_Witness ==
  /\ Parsed /\ parseResult.success
  /\ content.docs = <<K8sResource("Deployment", "nginx-deployment"), Null,
                      K8sResource("Service", "nginx-service")>>
  /\ ~content.hcl
  /\ MultiDocumentSet(parseResult)
  /\ DocumentsOf(parseResult) = <<K8sResource("Deployment", "nginx-deployment"),
                                  K8sResource("Service", "nginx-service")>>
  /\ parseResult.data.data = K8sResource("Deployment", "nginx-deployment")

\* the node lines of a markup, and the label of the subgraph a line is in
\* ("" outside of any subgraph)
NodeLines(code) == {i \in 1..Len(code) : code[i].kind = "node"}

SubgraphOf(code, i) ==
  LET marks == {j \in 1..(i - 1) : code[j].kind \in {"subgraph", "end"}} IN
  IF marks = {} THEN <<>>
  ELSE LET last == CHOOSE j \in marks : \A k \in marks : k <= j IN
       IF code[last].kind = "subgraph" THEN code[last].label ELSE <<>>

\* the documents of a call of the Kubernetes generator: each is one resource
ResourcesOf(parsedData) ==
  IF "documents" \in DOMAIN parsedData THEN parsedData.documents
  ELSE <<parsedData.data>>

\* metadata.namespace of a document, 'default' when absent
NamespaceOf(doc) ==
  IF HasKey(doc, "metadata") /\ HasKey(doc.o.metadata, "namespace")
       /\ doc.o.metadata.o.namespace.t = "str"
  THEN Chars(doc.o.metadata.o.namespace.s)
  ELSE Chars("default")

\* a Kubernetes text that parseContent accepted, handed to the generator
KubernetesRun ==
  /\ pc = "generated"
  /\ call.format = "kubernetes"

\* one node per document, each in the subgraph of its namespace
OneNodePerResource ==
  /\ diagram.success
  /\ LET code == diagram.mermaidCode
         docs == ResourcesOf(call)
     IN  /\ Cardinality(NodeLines(code)) = Len(docs)
         /\ \A ns \in {NamespaceOf(docs[i]) : i \in 1..Len(docs)} :
              Cardinality({i \in NodeLines(code) : SubgraphOf(code, i) = ns})
                = Cardinality({i \in 1..Len(docs) : NamespaceOf(docs[i]) = ns})

\* a document without metadata.name has a node named resource_<index>
PlaceholderNamed ==
  LET docs == ResourcesOf(call) IN
  \A i \in 1..Len(docs) :
    ~(HasKey(docs[i], "metadata") /\ HasKey(docs[i].o.metadata, "name")) =>
      /\ diagram.success
      /\ \E j \in NodeLines(diagram.mermaidCode), index \in 0..(Len(docs) - 1) :
           LET line == diagram.mermaidCode[j]
               name == Chars("resource_") \o NumChars(index)
           IN  /\ SubgraphOf(diagram.mermaidCode, j) = NamespaceOf(docs[i])
               /\ SubSeq(line.label, 1, 2 + Len(name)) = <<"<b>">> \o name \o <<"</b>">>

\* C11: Kubernetes generation emits exactly one node per resource: one for
\* a single document, n for n documents, each inside the subgraph of its
\* metadata.namespace ('default' when absent); a resource without a name is
\* rendered as resource_<index>, not skipped.
C11_OneNodePerResource ==
  KubernetesRun => (OneNodePerResource /\ PlaceholderNamed)

\* Deployment, Service and Ingress between separators: three nodes in the
\* subgraph of the namespace default
C11_ThreeDocuments ==
  /\ KubernetesRun
  /\ content.docs = <<K8sResource("Deployment", "nginx-deployment"),
                      K8sResource("Service", "nginx-service"),
                      K8sResource("Ingress", "nginx-ingress")>>
  /\ diagram.success
  /\ Cardinality(NodeLines(diagram.mermaidCode)) = 3
  /\ \A i \in NodeLines(diagram.mermaidCode) :
       SubgraphOf(diagram.mermaidCode, i) = Chars("default")

\* the 'depends on' edges of a markup
DependsOnLines(code) ==
  {i \in 1..Len(code) : code[i].kind = "edge" /\ code[i].label = "depends on"}

\* the names a depends_on lists: one name, a list of names, or (every) the
\* keys of its map form
ListedDependencies(depends_on) ==
  CASE depends_on.t = "str" -> {depends_on.s}
    [] depends_on.t = "arr" ->
         {depends_on.a[i].s : i \in {j \in 1..Len(depends_on.a) : depends_on.a[j].t = "str"}}
    [] OTHER -> {}

DeclaredDependencies(depends_on) ==
  IF depends_on.t = "obj" THEN Keys(depends_on) ELSE ListedDependencies(depends_on)

\* the pairs <<dependency, dependent>> of the services of the call, as ids
DependencyPairs(declared(_)) ==
  LET services == OrElse(Get(call.data, "services"), EmptyObj) IN
  UNION {{<<sanitizeNodeId(Chars(d)), sanitizeNodeId(Chars(k))>> :
            d \in declared(Get(services.o[k], "depends_on"))} :
         k \in Keys(services)}

\* a solid 'depends on' edge runs from each dependency to its dependent, and
\* every 'depends on' edge of the markup is one of these
EdgesFromDependencies(pairs) ==
  LET code == diagram.mermaidCode IN
  /\ \A p \in pairs :
       \E i \in DependsOnLines(code) :
         code[i].arrow = "-->" /\ code[i].from = p[1] /\ code[i].to = p[2]
  /\ \A i \in DependsOnLines(code) : <<code[i].from, code[i].to>> \in pairs

\* a Compose tree handed to the generator, for which it returns a markup
ComposeMarkup == ComposeCall /\ diagram.success

\* C12 as stated: for every service S and every dependency D declared in
\* S.depends_on, the markup has the edge D -->|depends on| S, and no 'depends
\* on' edge that no declaration accounts for.
C12_EveryDeclaredDependency ==
  ComposeMarkup => EdgesFromDependencies(DependencyPairs(DeclaredDependencies))

\* C12: for every service S and every dependency D that S.depends_on gives
\* as a name or as a name in a list, the markup has the edge
\* D -->|depends on| S; the markup has no other 'depends on' edge, so none in
\* the reverse direction on account of a declaration, and none for the map
\* form of depends_on or for an entry that is not a name.
C12_DependencyToDependent ==
  ComposeMarkup => EdgesFromDependencies(DependencyPairs(ListedDependencies))

\* web depends on api, api on database: database -> api and api -> web, and
\* neither api -> database nor web -> api
C12_Witness ==
  /\ ComposeMarkup
  /\ Keys(Get(call.data, "services")) = {"web", "api", "database"}
  /\ LET code == diagram.mermaidCode
         edges == {<<code[i].from, code[i].to>> : i \in DependsOnLines(code)}
     IN  edges = {<<Chars("database"), Chars("api")>>, <<Chars("api"), Chars("web")>>}

\* a Terraform tree handed to the generator, for which it returns a markup
TerraformMarkup ==
  /\ Generated
  /\ call.format = "terraform"
  /\ call.data.t = "obj"
  /\ diagram.success

ReferenceLines(code) ==
  {i \in 1..Len(code) : code[i].kind = "edge" /\ code[i].label = "referenced by"}

\* the interpolations of the form ${T.N...} written in an attribute value,
\* each as <<T, N>>, read off the value
WrittenReferences(value) ==
  CASE value = S("${aws_vpc.main.id}") -> {<<"aws_vpc", "main">>}
    [] value = S("${var.region}") -> {<<"var", "region">>}
    [] value = S("${local.tags}") -> {<<"local", "tags">>}
    [] value = S("${var.region}-${aws_vpc.main.id}") ->
         {<<"var", "region">>, <<"aws_vpc", "main">>}
    [] value = S("${data.aws_ami.ubuntu.id}") -> {<<"data", "aws_ami">>}
    [] OTHER -> {}

\* the resources of the call that have a config: <<type, name, config>>
ConfiguredResources ==
  LET resource == OrElse(Get(call.data, "resource"), EmptyObj)
      types == {t \in Keys(resource) : resource.o[t].t = "obj"}
  IN  UNION {{<<t, n, resource.o[t].o[n]>> :
                n \in {m \in Keys(resource.o[t]) : resource.o[t].o[m].t = "obj"}} :
             t \in types}

\* the pairs <<sanitizeId(T_N), sanitizeId(R)>> of the references written in
\* the attributes of the resources, those of var and local left out
ReferencePairs ==
  UNION {UNION {{<<sanitizeNodeId(Chars(ref[1]) \o <<"_">> \o Chars(ref[2])),
                   sanitizeNodeId(Chars(r[1]) \o <<"_">> \o Chars(r[2]))>> :
                   ref \in {w \in WrittenReferences(r[3].o[k]) :
                              w[1] \notin {"var", "local"}}} :
                k \in Keys(r[3])} :
         r \in ConfiguredResources}

\* C13: for every resource R and every string attribute of R holding an
\* interpolation ${T.N...} with T neither var nor local, the markup has the
\* dotted edge sanitizeId(T_N) -.->|referenced by| sanitizeId(R); every
\* 'referenced by' edge of the markup is one of these, so an interpolation
\* whose first segment is var or local produces none.
C13_ReferencedBy ==
  TerraformMarkup =>
    LET code == diagram.mermaidCode IN
    /\ \A p \in ReferencePairs :
         \E i \in ReferenceLines(code) :
           code[i].arrow = "-.->" /\ code[i].from = p[1] /\ code[i].to = p[2]
    /\ \A i \in ReferenceLines(code) : <<code[i].from, code[i].to>> \in ReferencePairs

\* aws_subnet.sub1 holds "${var.region}-${aws_vpc.main.id}" and
\* "${local.tags}": the one 'referenced by' edge runs from aws_vpc_main to
\* aws_subnet_sub1
C13_Witness ==
  /\ TerraformMarkup
  /\ \E r \in ConfiguredResources :
       /\ r[1] = "aws_subnet" /\ r[2] = "sub1"
       /\ {r[3].o[k] : k \in Keys(r[3])} =
            {S("${var.region}-${aws_vpc.main.id}"), S("${local.tags}")}
  /\ LET code == diagram.mermaidCode IN
     {<<code[i].from, code[i].to>> : i \in ReferenceLines(code)} =
       {<<Chars("aws_vpc_main"), Chars("aws_subnet_sub1")>>}

\* a run of the pipeline on native HCL text that ends with a markup
HclRun ==
  /\ pc = "generated"
  /\ content.syntax = "broken" /\ content.hcl
  /\ call.format = "terraform"
  /\ diagram.success

\* the resource a bare reference type.name.attr names, as <<type, name>>,
\* read off the value
BareReference(value) ==
  CASE value = "aws_vpc.main.id" -> <<"aws_vpc", "main">>
    [] value = "var.region" -> <<"var", "region">>
    [] value = "local.tags" -> <<"local", "tags">>

\* the pairs <<node of type.name, node of R>> of the bare references of the
\* resource blocks of the text, those of var and local left out
BareReferencePairs ==
  UNION {{<<sanitizeNodeId(Chars(BareReference(a.value)[1]) \o <<"_">>
                             \o Chars(BareReference(a.value)[2])),
            sanitizeNodeId(Chars(r.type) \o <<"_">> \o Chars(r.name))>> :
            a \in {x \in Range(r.attrs) :
                     /\ ~x.quoted /\ IncludesDot(x.value)
                     /\ BareReference(x.value)[1] \notin {"var", "local"}}} :
         r \in Range(content.blocks.resource)}

\* C14: for native HCL text in which resource R has an attribute
\* key = type.name.attr (unquoted, with a dot, first segment not var or
\* local), parse followed by generate yields a 'referenced by' edge from the
\* node of type.name to the node of R.
C14_BareReferenceEdges ==
  HclRun =>
    LET code == diagram.mermaidCode IN
    \A p \in BareReferencePairs :
      \E i \in ReferenceLines(code) : code[i].from = p[1] /\ code[i].to = p[2]

\* the extractor kept vpc_id = aws_vpc.main.id of aws_subnet.sub1, both
\* resources are nodes of the markup, and it has no 'referenced by' edge
C14_BareReferenceKept ==
  /\ HclRun
  /\ Get(Get(Get(Get(call.data, "resource"), "aws_subnet"), "sub1"), "vpc_id")
       = S("aws_vpc.main.id")
  /\ LET code == diagram.mermaidCode IN
     /\ {Chars("aws_vpc_main"), Chars("aws_subnet_sub1")}
          \subseteq {code[i].id : i \in NodeLines(code)}
     /\ ReferenceLines(code) = {}

\* a Terraform document written as YAML or JSON, without HCL block-opening
\* syntax, that parseContent accepted as terraform
EmbeddedTerraform ==
  /\ pc \in {"parsed", "generated"}
  /\ content.syntax \in {"json", "yaml"} /\ ~content.hcl
  /\ Len(content.docs) = 1
  /\ parseResult.success
  /\ parseResult.data.format = "terraform"

\* C15: the mini-HCL extractor replaces YAML/JSON parsing only for native HCL
\* text; a Terraform document written as YAML or JSON is parsed by the
\* JSON/YAML parser, so the tree handed to the generator holds every resource
\* and provider entry of the document.
C15_EmbeddedTerraformParsed ==
  EmbeddedTerraform =>
    /\ ~TakesHclPath(content, parseResult.data.format)
    /\ \A k \in {"resource", "provider"} :
         Get(parseResult.data.data, k) = Get(content.docs[1], k)

\* a YAML document with a resource entry, not starting with 'terraform:',
\* went to the extractor: the tree handed on is empty
C15_ResourcesLost ==
  /\ EmbeddedTerraform
  /\ content.syntax = "yaml" /\ content.lead = "other"
  /\ HasKey(content.docs[1], "resource")
  /\ parseResult.data.data = EmptyObj

\* parseContent has returned for a text that the HCL heuristic classified
\* terraform and that went to the extractor
ExtractorRun ==
  /\ pc \in {"parsed", "generated"}
  /\ content.hcl
  /\ TakesHclPath(content, detectFormat(content))

\* C16: for every text classified terraform by the HCL heuristic and taken
\* down the HCL path, parseContent returns success true with format
\* terraform and at most warnings, never a failure.
C16_ExtractorNeverFails ==
  ExtractorRun =>
    /\ parseResult.success
    /\ parseResult.data.format = "terraform"
    /\ "validationErrors" \in DOMAIN parseResult =>
         \A i \in 1..Len(parseResult.validationErrors) :
           parseResult.validationErrors[i].type = "warning"

\* the text holds resource "__proto__" "__proto__" { }: the extractor raised
\* and parseContent returned the failure that carries its message
C16_ExtractorRaised ==
  /\ ExtractorRun
  /\ AssignsPrototypeOfPrototype(content.blocks.resource)
  /\ parseResult = ParseFailure(ImmutablePrototype)

\* without such a block every text that went to the extractor parsed
C16_OtherTextsParse ==
  (ExtractorRun /\ ~AssignsPrototypeOfPrototype(content.blocks.resource))
    => parseResult.success /\ parseResult.data.format = "terraform"

\* ^[A-Za-z_][A-Za-z0-9_-]*$
MatchesIdentifier(q) ==
  /\ Len(q) > 0
  /\ q[1] \in Letters \cup {"_"}
  /\ \A i \in 1..Len(q) : q[i] \in Letters \cup Digits \cup {"_", "-"}

\* C17: for every string s, sanitizeNodeId(s) matches
\* ^[A-Za-z_][A-Za-z0-9_-]*$: only characters of [A-Za-z0-9_-], not empty,
\* no digit at its start.
C17_MarkupSafeIdentifier ==
  pc = "sanitized" => MatchesIdentifier(safeId)

\* "_1a" has no digit at its start, so none is prefixed; the underscore is
\* trimmed afterwards and the result starts with the digit
C17_LeadingDigitSurvives ==
  /\ pc = "sanitized"
  /\ rawId = <<"_", "1", "a">>
  /\ safeId = <<"1", "a">>

\* what does hold: the result has only characters of [A-Za-z0-9_-]
C17_OnlySafeCharacters ==
  pc = "sanitized" =>
    \A i \in 1..Len(safeId) : safeId[i] \in Letters \cup Digits \cup {"_", "-"}

SelectLines(code) ==
  {i \in 1..Len(code) : code[i].kind = "edge" /\ code[i].label = "selects"}

\* a Kubernetes generation that returned a markup
KubernetesMarkup ==
  /\ Generated
  /\ call.format = "kubernetes"
  /\ diagram.success

\* C18: within one Kubernetes generation pass every endpoint of every
\* 'selects' edge is the id of a node declared in the same markup, for
\* resources with or without metadata.name or metadata.namespace.
C18_EdgesResolve ==
  KubernetesMarkup =>
    LET code == diagram.mermaidCode
        declared == {code[i].id : i \in NodeLines(code)}
    IN  \A i \in SelectLines(code) : code[i].from \in declared /\ code[i].to \in declared

\* a Service without metadata selects a Deployment of the default namespace:
\* it is declared as Service_resource_0_default (or _1_) and the edge leaves
\* Service_unknown_default
C18_UnnamedService ==
  /\ KubernetesMarkup
  /\ pc = "generated"
  /\ LET code == diagram.mermaidCode
         declared == {code[i].id : i \in NodeLines(code)}
     IN  /\ \E i \in SelectLines(code) :
              /\ code[i].from = Chars("Service_unknown_default")
              /\ code[i].to = Chars("Deployment_nginx-deployment_default")
         /\ Chars("Service_unknown_default") \notin declared
         /\ declared \cap {Chars("Service_resource_0_default"),
                           Chars("Service_resource_1_default")} # {}

\* generateMermaidDiagram has returned for the ParsedData of the test: one
\* Deployment with a name and a namespace
WebAppGenerated == pc = "called" /\ call = WebAppCall

\* the markup holds the text: in its header, or in the label of a node
MarkupContains(code, text) ==
  \E i \in 1..Len(code) :
    \/ code[i].kind = "header" /\ IncludesChars(Chars(code[i].text), Chars(text))
    \/ code[i].kind = "node" /\ IncludesChars(code[i].label, Chars(text))

\* C20: for a kubernetes ParsedData (one Deployment with a name and a
\* namespace) generateMermaidDiagram returns success true, a markup that
\* holds 'graph TD', the kind and the resource name, and diagramType 'graph'.
C20_KubernetesGraph ==
  WebAppGenerated =>
    /\ diagram.success
    /\ MarkupContains(diagram.mermaidCode, "graph TD")
    /\ MarkupContains(diagram.mermaidCode, "Deployment")
    /\ MarkupContains(diagram.mermaidCode, "web-app")
    /\ diagram.diagramType = "graph"

\* the call succeeds and the markup holds the kind and the name, under the
\* header 'flowchart TD' and with diagramType 'flowchart'
C20_KubernetesFlowchart ==
  /\ WebAppGenerated
  /\ diagram.success
  /\ diagram.mermaidCode[1] = HeaderLine("flowchart TD")
  /\ ~MarkupContains(diagram.mermaidCode, "graph TD")
  /\ MarkupContains(diagram.mermaidCode, "Deployment")
  /\ MarkupContains(diagram.mermaidCode, "web-app")
  /\ diagram.diagramType = "flowchart"

\* C19: two runs of parseContent followed by generateMermaidDiagram on the
\* same text, with any runs on other texts in between, give the same
\* result: the same success flag, markup and diagram type.
C19_SameTextSameResult ==
  RunDone =>
    \A i \in 1..Len(runs) : runs[i].text = content => runs[i].outcome = Outcome

\* '{}' was rejected, then the text with resource "__proto__" "Resources"
\* was parsed, and now '{}' is a CloudFormation template with a markup
C19_EarlierRunShows ==
  /\ RunDone
  /\ Len(runs) = 2
  /\ content.docs = <<EmptyObj>> /\ runs[1].text = content
  /\ runs[1].outcome = [success |-> FALSE]
  /\ runs[2].text.blocks.resource = <<PollutingRes>>
  /\ "Resources" \in DOMAIN prototype
  /\ parseResult.success /\ parseResult.data.format = "cloudformation"
  /\ diagram.success

\* a call of one of the six generators that returned a markup
GeneratorMarkup ==
  /\ Generated
  /\ call.format \in FormatLabels \ {"unknown"}
  /\ diagram.success

ClassDefLines(code) == {i \in 1..Len(code) : code[i].kind = "classDefs"}

\* the markup opens with a diagram-kind declaration
OpensWithDeclaration(code) ==
  /\ Len(code) > 0
  /\ code[1].kind = "header"
  /\ code[1].text \in {"flowchart TD", "graph TD"}

\* the classes of the classDef block of a format, in the order of the block
Palette(format) ==
  CASE format = "docker-compose" ->
         <<"webServer", "database", "cache", "application", "network", "volume">>
    [] format = "kubernetes" -> <<"workload", "service", "config", "storage">>
    [] format = "terraform" ->
         <<"network", "compute", "database", "loadbalancer", "storage",
           "datasource", "variable">>
    [] OTHER -> <<>>

\* the markup ends with its one classDef block, the one of the format
EndsWithPalette(code, format) ==
  /\ ClassDefLines(code) = {Len(code)}
  /\ code[Len(code)].names = Palette(format)

FixedGroupLabels ==
  {"Services", "Networks", "Volumes", "Resources", "Data Sources", "Variables"}

\* a label without a raw double quote and without a newline
Escaped(label) == \A i \in 1..Len(label) : label[i] \notin {"\"", "\n"}

\* C22: for every input, no quoted label of a node or of a grouping
\* declaration holds a raw double quote or a newline, whatever characters
\* the source names hold.
C22_LabelsEscaped ==
  (Generated /\ diagram.success) =>
    LET code == diagram.mermaidCode IN
    \A i \in 1..Len(code) :
      /\ code[i].kind = "node" => Escaped(code[i].label)
      /\ code[i].kind = "subgraph" =>
           IF call.format = "kubernetes" THEN Escaped(code[i].label)
           ELSE code[i].label \in FixedGroupLabels

\* the name and the namespace of a Deployment are a"b: the label of the node
\* holds &quot; and the label of the namespace holds the quote
C22_RawNamespace ==
  /\ pc = "generated" /\ diagram.success
  /\ call.format = "kubernetes"
  /\ LET code == diagram.mermaidCode IN
     /\ \E i \in 1..Len(code) :
          code[i].kind = "subgraph" /\ code[i].label = <<"a", "\"", "b">>
     /\ \E i \in NodeLines(code) :
          /\ Escaped(code[i].label)
          /\ \E j \in 1..Len(code[i].label) : code[i].label[j] = "&quot;"

\* what does hold: the labels of the nodes are escaped
C22_NodeLabelsEscaped ==
  (Generated /\ diagram.success) =>
    LET code == diagram.mermaidCode IN
    \A i \in NodeLines(code) : Escaped(code[i].label)

\* the number of lines of a label: its line breaks and one
LabelLines(label) == 1 + Cardinality({i \in 1..Len(label) : label[i] = "<br/>"})

\* the kinds of summary line of a service label
SummaryKinds ==
  {"name", "image", "ports", "environment", "volumes", "restart", "working_dir",
   "command"}

\* C23: the labels of the nodes are bounded whatever the input declares: a
\* label has at most one line for each kind of summary, and the number of its
\* lines does not grow with the number of ports.
C23_LabelLinesBounded ==
  (Generated /\ diagram.success) =>
    \A i \in NodeLines(diagram.mermaidCode) :
      LabelLines(diagram.mermaidCode[i].label) <= Cardinality(SummaryKinds)

\* the label of a service that publishes n ports has n + 2 lines
C23_OneLinePerPort ==
  /\ ComposeMarkup
  /\ \E n \in 3..MaxPorts :
       /\ call.data = PortsTree(n)
       /\ \E i \in NodeLines(diagram.mermaidCode) :
            LabelLines(diagram.mermaidCode[i].label) = n + 2

\* the resources of the pass: the documents that are objects
PassDocs == SelectSeq(ResourcesOf(call), LAMBDA d : d.t = "obj")

Named(doc) ==
  HasKey(doc, "metadata") /\ HasKey(doc.o.metadata, "name")
    /\ doc.o.metadata.o.name.t = "str"

\* the id of the node declared for the i-th resource: its kind, its name (or
\* resource_<index>, the index counting the resources of its namespace) and
\* its namespace
DeclaredId(docs, i) ==
  LET ns == NamespaceOf(docs[i])
      index == Cardinality({j \in 1..(i - 1) : NamespaceOf(docs[j]) = ns})
      name == IF Named(docs[i]) THEN Chars(docs[i].o.metadata.o.name.s)
              ELSE Chars("resource_") \o NumChars(index)
  IN  sanitizeNodeId(ToStr(Get(docs[i], "kind")) \o <<"_">> \o name \o <<"_">> \o ns)

\* a Service with a selector that is not empty
Selecting(doc) ==
  /\ Get(doc, "kind") = S("Service")
  /\ HasKey(doc, "spec") /\ HasKey(doc.o.spec, "selector")
  /\ doc.o.spec.o.selector.t = "obj" /\ Keys(doc.o.spec.o.selector) # {}

Workload(doc) == Get(doc, "kind") \in {S("Deployment"), S("StatefulSet")}

\* among the resources `among`: every selecting Service has its edge to every
\* workload of its namespace, and every 'selects' edge runs from a Service
\* to a workload of the same namespace
SelectsEdges(among) ==
  LET code == diagram.mermaidCode
      docs == PassDocs
      edges == {<<code[i].from, code[i].to>> : i \in SelectLines(code)}
  IN  /\ \A s \in among, w \in among :
           (Selecting(docs[s]) /\ Workload(docs[w])
              /\ NamespaceOf(docs[s]) = NamespaceOf(docs[w]))
             => /\ <<DeclaredId(docs, s), DeclaredId(docs, w)>> \in edges
                /\ \A i \in SelectLines(code) : code[i].arrow = "-->"
      /\ (among = DOMAIN docs) =>
           \A e \in edges :
             \E s \in among, w \in among :
               /\ e = <<DeclaredId(docs, s), DeclaredId(docs, w)>>
               /\ Get(docs[s], "kind") = S("Service") /\ Workload(docs[w])
               /\ NamespaceOf(docs[s]) = NamespaceOf(docs[w])

\* C24: for every Service S with a non-empty spec.selector and every
\* Deployment or StatefulSet W of the namespace of S the markup has the edge
\* S -->|selects| W; no 'selects' edge runs to a resource of another
\* namespace or of another kind, and none leaves a resource that is not a
\* Service.
C24_SelectsEdges ==
  (KubernetesMarkup /\ pc = "called") => SelectsEdges(DOMAIN PassDocs)

\* the same when every resource of the pass has a name
C24_NamedSelectsEdges ==
  (KubernetesMarkup /\ pc = "called" /\ \A i \in DOMAIN PassDocs : Named(PassDocs[i]))
    => SelectsEdges(DOMAIN PassDocs)

\* the Service api of prod selects the StatefulSet of prod and not the
\* Deployment of default
C24_Witness ==
  /\ KubernetesMarkup /\ pc = "called"
  /\ PassDocs = <<K8sNamespaced("Service", "api", "prod", O([selector |-> O([app |-> S("api")])])),
                  K8sResource("Deployment", "nginx-deployment"),
                  K8sNamespaced("StatefulSet", "db", "prod", EmptyObj)>>
  /\ {<<diagram.mermaidCode[i].from, diagram.mermaidCode[i].to>> :
        i \in SelectLines(diagram.mermaidCode)}
       = {<<Chars("Service_api_prod"), Chars("StatefulSet_db_prod")>>}

\* the Service without metadata selects the Deployment of default: the edge
\* leaves Service_unknown_default, which is not the node of the Service
C24_UnnamedService ==
  /\ KubernetesMarkup /\ pc = "called"
  /\ PassDocs = <<K8sResource("Deployment", "nginx-deployment"), SelectingService>>
  /\ {<<diagram.mermaidCode[i].from, diagram.mermaidCode[i].to>> :
        i \in SelectLines(diagram.mermaidCode)}
       = {<<Chars("Service_unknown_default"), Chars("Deployment_nginx-deployment_default")>>}
  /\ DeclaredId(PassDocs, 2) = Chars("Service_resource_1_default")

\* the networks a service config lists: the items of a list, the keys of a
\* map
ListedNetworks(config) ==
  LET networks == Get(config, "networks") IN
  IF networks.t = "arr"
  THEN {Chars(networks.a[i].s) : i \in {j \in 1..Len(networks.a) : networks.a[j].t = "str"}}
  ELSE {Chars(k) : k \in Keys(networks)}

\* the services of the call with a network listed
NetworkMembers ==
  LET services == Get(call.data, "services") IN
  {k \in Keys(services) : ListedNetworks(services.o[k]) # {}}

ConnectsToLines(code) ==
  {i \in 1..Len(code) : code[i].kind = "edge" /\ code[i].label = "connects to"}

\* every listed network of every service has its dotted edge
MembershipEdges ==
  LET code == diagram.mermaidCode
      services == Get(call.data, "services")
  IN  \A k \in NetworkMembers : \A n \in ListedNetworks(services.o[k]) :
        \E i \in ConnectsToLines(code) :
          /\ code[i].from = sanitizeNodeId(Chars(k))
          /\ code[i].arrow = "-.->"
          /\ code[i].to = sanitizeNodeId(Chars("network_") \o n)

\* C25: for every service S and every network N that S lists under
\* networks, as a list item or as a map key, the markup has the dotted edge
\* sanitizeId(S) -.->|connects to| sanitizeId(network_N), for every Compose
\* tree.
C25_ConnectsTo ==
  ComposeMarkup => MembershipEdges

\* the same for the trees that declare a network at the top level
C25_ConnectsToWithNetworksSection ==
  (ComposeMarkup /\ Keys(Get(call.data, "networks")) # {}) => MembershipEdges

\* web lists backend as a map key, api lists frontend and backend, the tree
\* declares frontend alone: three edges
C25_Witness ==
  /\ ComposeMarkup
  /\ NetworkMembers = {"web", "api"}
  /\ Keys(Get(call.data, "networks")) = {"frontend"}
  /\ {<<diagram.mermaidCode[i].from, diagram.mermaidCode[i].to>> :
        i \in ConnectsToLines(diagram.mermaidCode)}
       = {<<Chars("web"), Chars("network_backend")>>,
          <<Chars("api"), Chars("network_frontend")>>,
          <<Chars("api"), Chars("network_backend")>>}

\* web lists the network frontend, the tree has no networks section: no
\* 'connects to' edge in the markup
C25_NoNetworksSection ==
  /\ ComposeMarkup
  /\ NetworkMembers = {"web"}
  /\ Keys(Get(call.data, "networks")) = {}
  /\ ConnectsToLines(diagram.mermaidCode) = {}

\* the documents of the parsed text: those of a stream, or the one value
ParsedDocuments ==
  LET p == ParseStep(content, detected).value IN
  IF p.isMultiDocument THEN p.documents ELSE <<p.parsed>>

LacksImageAndBuild(config) ==
  config.t = "obj" /\ ~HasKey(config, "image") /\ ~HasKey(config, "build")

LacksName(doc) ==
  ~(HasKey(doc, "metadata") /\ HasKey(doc.o.metadata, "name"))

\* the soft conditions of the value and the issue each one is to give:
\* `unnamed` tells which documents count as having no metadata.name
SoftIssues(unnamed(_)) ==
  LET data == ParsedValue
      services == Get(data, "services")
  IN  CASE detected = "docker-compose" ->
             {Issue("Service must have either 'image' or 'build' specified", k, "warning") :
                k \in {x \in Keys(services) : LacksImageAndBuild(services.o[x])}}
        [] detected = "kubernetes" ->
             IF \E i \in DOMAIN ParsedDocuments : unnamed(ParsedDocuments[i])
             THEN {Issue("metadata.name is required", "", "warning")} ELSE {}
        [] detected = "terraform" ->
             IF Keys(data) \cap {"resource", "data", "module"} = {}
             THEN {Issue("Terraform configuration should contain at least one resource, data source, or module",
                         "", "warning")}
             ELSE {}
        [] OTHER -> {}

ReturnedIssues ==
  IF "validationErrors" \in DOMAIN parseResult THEN parseResult.validationErrors ELSE <<>>

\* each soft condition gives its issue as a warning and not as an error, and
\* with no error-severity issue beside them the parse succeeds
SoftChecksWarn(soft) ==
  /\ \A w \in soft :
       /\ w \in Range(ReturnedIssues)
       /\ [w EXCEPT !.type = "error"] \notin Range(ReturnedIssues)
  /\ (soft # {} /\ ErrorIssues(ReturnedIssues) = {}) => parseResult.success

\* C26: a Docker Compose service lacking both image and build, a Kubernetes
\* document with no metadata.name and a Terraform configuration with none
\* of resource, data and module each give a warning-severity issue, never an
\* error-severity one, and parseContent still returns success true.
C26_SoftChecksWarn ==
  (Parsed /\ ClassifiedAndParseable /\ TypeofObject(ParsedValue) /\ Truthy(ParsedValue))
    => SoftChecksWarn(SoftIssues(LacksName))

\* the document that is validated and whose metadata is an object
ValidatedWithMetadata(doc) ==
  doc = ParsedValue /\ HasKey(doc, "metadata") /\ doc.o.metadata.t = "obj"
    /\ ~HasKey(doc.o.metadata, "name")

\* the same with the Kubernetes check read as: the first document of the
\* text has a metadata object without a name
C26_SoftChecksWarnFirstDocument ==
  (Parsed /\ ClassifiedAndParseable /\ TypeofObject(ParsedValue) /\ Truthy(ParsedValue))
    => SoftChecksWarn(SoftIssues(ValidatedWithMetadata))

\* a Compose service without image and build: the parse succeeds and
\* returns the warning
C26_Witness ==
  /\ Parsed /\ ClassifiedAndParseable
  /\ detected = "docker-compose"
  /\ parseResult.success
  /\ SoftIssues(LacksName) # {}
  /\ SoftIssues(LacksName) \subseteq Range(ReturnedIssues)

\* a Kubernetes document without metadata: the parse succeeds and returns
\* no issue
C26_NoMetadataNoWarning ==
  /\ Parsed /\ ClassifiedAndParseable
  /\ detected = "kubernetes"
  /\ ParsedDocuments = <<ParsedValue>>
  /\ ~HasKey(ParsedValue, "metadata")
  /\ parseResult.success
  /\ ReturnedIssues = <<>>

\* an ARM tree handed to the generator, which returned a markup
ArmMarkup ==
  /\ Generated
  /\ call.format = "azure-arm"
  /\ diagram.success

\* the entries of resources that are objects, in their order
ArmEntries ==
  LET resources == Get(call.data, "resources") IN
  IF resources.t = "arr" THEN SelectSeq(resources.a, LAMBDA r : r.t = "obj") ELSE <<>>

\* the node lines of a markup, in their order
NodeLineSeq(code) == SelectSeq(code, LAMBDA line : line.kind = "node")

EdgeLineSeq(code) == SelectSeq(code, LAMBDA line : line.kind = "edge")

\* the string entries of a dependsOn given as a string or as a list
StringDependencies(resource) ==
  LET dependsOn == Get(resource, "dependsOn") IN
  SelectSeq(IF dependsOn.t = "arr" THEN dependsOn.a
            ELSE IF dependsOn.t = "str" THEN <<dependsOn>> ELSE <<>>,
            LAMBDA d : d.t = "str")

\* the number of positions of q that hold x
Count(q, x) == Cardinality({i \in 1..Len(q) : q[i] = x})

CfnMarkup ==
  /\ Generated
  /\ call.format = "cloudformation"
  /\ TypeofObject(call.data) /\ Truthy(call.data)
  /\ diagram.success

\* the logical ids of the entries of Resources that are objects
CfnLogicalIds ==
  LET resources == Get(call.data, "Resources") IN
  {k \in Keys(resources) : resources.o[k].t \in {"obj", "arr"}}

CfnParameterNames ==
  LET parameters == Get(call.data, "Parameters") IN
  IF parameters.t = "obj" THEN Keys(parameters) ELSE {}

\* the string entries of a DependsOn given as a string or as a list
DependsOnNames(config) ==
  LET DependsOn == Get(config, "DependsOn") IN
  SelectSeq(IF DependsOn.t = "arr" THEN DependsOn.a
            ELSE IF DependsOn.t = "str" THEN <<DependsOn>> ELSE <<>>,
            LAMBDA d : d.t = "str")

\* the same, a DependsOn that is the empty string counting as absent
DependsOnNamesNonEmpty(config) ==
  IF Get(config, "DependsOn") = S("") THEN <<>> ELSE DependsOnNames(config)

\* one node per object entry of Resources and per key of Parameters; per
\* resource, the edges from the entries `names` gives, and no other edge
CfnNodesAndEdges(names(_)) ==
  LET nodes == NodeLineSeq(diagram.mermaidCode)
      edges == EdgeLineSeq(diagram.mermaidCode)
      resources == Get(call.data, "Resources")
      ids == [i \in 1..Len(nodes) |-> nodes[i].id]
      all == FlatMap(SetToSeq(CfnLogicalIds), LAMBDA k : names(resources.o[k]))
  IN  /\ \A k \in CfnLogicalIds : Count(ids, sanitizeNodeId(Chars(k))) = 1
      /\ \A p \in CfnParameterNames :
           Count(ids, sanitizeNodeId(Chars("param_") \o Chars(p))) = 1
      /\ Len(nodes) = Cardinality(CfnLogicalIds) + Cardinality(CfnParameterNames)
      /\ \A k \in CfnLogicalIds :
           LET deps == names(resources.o[k]) IN
           \A i \in 1..Len(deps) :
             Count(edges, EdgeLine(sanitizeNodeId(Chars(deps[i].s)), "-->", "",
                                   sanitizeNodeId(Chars(k))))
               = Count(deps, deps[i])
      /\ Len(edges) = Len(all)

\* C28 as stated: every object-valued entry of Resources gives exactly one
\* node keyed by its logical id; DependsOn given as a string or as a list
\* gives one edge sanitizeId(D) --> sanitizeId(resource) for each string
\* entry D; every key of Parameters gives exactly one node
\* sanitizeId(param_<name>); the number of edges is the number of string
\* DependsOn entries.
C28_EveryStringEntry ==
  CfnMarkup => CfnNodesAndEdges(DependsOnNames)

\* C28: every object-valued entry of Resources gives exactly one node keyed
\* by its logical id; DependsOn given as a non-empty string or as a list
\* gives one edge sanitizeId(D) --> sanitizeId(resource) for each string
\* entry D; every key of Parameters gives exactly one node
\* sanitizeId(param_<name>) and no edge; the number of edges is the number
\* of these string entries.
C28_CloudFormationGraph ==
  CfnMarkup => CfnNodesAndEdges(DependsOnNamesNonEmpty)

\* Web depends on Db and Queue, Db on Db (as a string), two parameters:
\* four nodes and three edges
C28_Witness ==
  /\ CfnMarkup
  /\ Get(call.data, "Resources")
       = O([Web |-> CfnResource(A(<<S("Db"), S("Queue")>>)), Db |-> CfnResource(S("Db"))])
  /\ CfnParameterNames = {"Env", "Size"}
  /\ Len(NodeLineSeq(diagram.mermaidCode)) = 4
  /\ Range(EdgeLineSeq(diagram.mermaidCode))
       = {EdgeLine(Chars("Db"), "-->", "", Chars("Web")),
          EdgeLine(Chars("Queue"), "-->", "", Chars("Web")),
          EdgeLine(Chars("Db"), "-->", "", Chars("Db"))}
  /\ Len(EdgeLineSeq(diagram.mermaidCode)) = 3

\* C29: starting from 100%, after any sequence of Zoom In, Zoom Out,
\* ctrl+wheel and Reset the zoom is within [0.1, 5]; Zoom Out is disabled
\* exactly when the zoom is at 0.1 and Zoom In exactly when it is at 5;
\* ClicksToLimit clicks of Zoom Out (of Zoom In) in a row end at the
\* disabled minimum (maximum); after Reset the zoom is 1 and the pan (0, 0).
C29_ZoomBounded ==
  /\ ZoomLeq(Double(MinZoom), zoom) /\ ZoomLeq(zoom, Double(MaxZoom))
  /\ ZoomOutDisabled <=> zoom = Double(MinZoom)
  /\ ZoomInDisabled <=> zoom = Double(MaxZoom)
  /\ (clicks.control = "out" /\ clicks.count = ClicksToLimit) => ZoomOutDisabled
  /\ (clicks.control = "in" /\ clicks.count = ClicksToLimit) => ZoomInDisabled
  /\ clicks.control = "reset" => (zoom = Double(InitialZoom) /\ pan = Origin)

\* five clicks of Zoom Out from 100%: the zoom is 0.1 and the control is
\* disabled
C29_Witness ==
  /\ clicks = [control |-> "out", count |-> 5]
  /\ zoom = Double(MinZoom)
  /\ ZoomOutDisabled

\* as many clicks of Zoom In as there are steps between the limits: the
\* zoom is 5 and the control is disabled
C29_MaximumReached ==
  /\ clicks = [control |-> "in", count |-> ClicksToLimit]
  /\ zoom = Double(MaxZoom)
  /\ ZoomInDisabled

\* Reset after a drag and a zoom
C29_ResetReached ==
  /\ clicks.control = "reset"
  /\ panMode /\ zoom = Double(InitialZoom) /\ pan = Origin

\* C30: for any interleaving of editor changes, file uploads and example
\* loads, once every pending timer has fired the App state (mermaidCode,
\* parsedData, error) is the result of processing the current yamlContent,
\* never that of an earlier content.
C30_ConvergesToCurrentContent ==
  timers = <<>> => app = processContent(yamlContent)

\* the Deployment was typed into the editor, the Compose file was uploaded
\* before the timer fired: with no timer pending the editor holds the
\* Compose file and the diagram is that of the Deployment
C30_StaleTimerWins ==
  /\ timers = <<>>
  /\ yamlContent = Text("json", TRUE, <<ComposeDoc>>, FALSE, FALSE, "brace", NoBlocks)
  /\ app = processContent(Text("json", TRUE, <<K8sDoc>>, FALSE, FALSE, "brace", NoBlocks))
  /\ app # processContent(yamlContent)
  /\ app.error = Null /\ app.mermaidCode # <<>>

====
